---- MODULE Spec2Model ----
(***************************************************************************)
(* A model of the textyle layout engine (louis1001/textyle).               *)
(*                                                                         *)
(*   - the sizing algebra         src/src/continuous/layout/sizing.rs      *)
(*   - the stack positioner       src/src/continuous/canvas.rs             *)
(*   - the size resolver          src/src/layout/mod.rs                    *)
(*   - the text surface/renderer  src/src/canvas.rs                        *)
(*                                                                         *)
(* usize is modelled as 0..USIZE_MAX with a scaled-down word; i64 as the   *)
(* integers.  Rust's unchecked arithmetic on usize panics when the build   *)
(* has overflow checks (debug) and wraps when it has not (release): the    *)
(* variable overflow_checks is the build profile, chosen in Init.          *)
(***************************************************************************)
EXTENDS Integers, Sequences, FiniteSets, TLC

VARIABLES
    overflow_checks,  \* build profile: TRUE = debug (panic), FALSE = release (wrap)
    \* ---- sizing algebra (ItemSizing::fit_into) ----
    item,             \* the ItemSizing fit_into is called on
    fit_bounds,       \* the bounds argument of the last fit_into call
    fitted,           \* the Rect the last fit_into call returned (NoRect before)
    \* ---- stack positioner (Canvas::render, VerticalStack / HorizontalStack) ----
    axis,             \* "Vertical" or "Horizontal": which stack arm runs
    spacing,          \* the stack's spacing field
    nodes,            \* the children's Sizing on the primary axis, in child order
    extent,           \* bounds.height (Vertical) or bounds.width (Horizontal)
    greedy_count,     \* local greedy_count
    static_size,      \* local static_height / static_width
    greedy_space,     \* local greedy_space (the remaining elastic budget)
    greedy_size,      \* local greedy_size (the floor share)
    budget,           \* greedy_space as first computed (the elastic budget B)
    new_nodes,        \* local new_nodes: the children's converted primary Sizing
    shares,           \* node_height / node_width of each child before .max(tight)
    stack_pc,         \* "count", "budget", "distribute", "done" or "panic"
    \* ---- TextCanvas::render_layout ----
    root_layout,      \* the Layout tree handed to render_layout
    surface,          \* the TextCanvas: size and contents (row-major)
    sized,            \* the SizedLayout resolve_size returned (NoLayout before)
    calls,            \* the calls of render, in call order: node kind, sizing, bounds
    layout_pc,        \* "start", "resolved", "rendered" or "panic"
    \* ---- the Text arm of TextCanvas::render, one grapheme at a time ----
    text_rest,        \* the graphemes the loop has not reached yet
    text_bounds,      \* the bounds the Text leaf is drawn in
    text_canvas,      \* the TextCanvas being drawn on
    prior,            \* the TextCanvas as it was before the Text was drawn
    cursor,           \* the loop's x and y
    spaces,           \* the cursor positions at which the loop met a space
    text_pc,          \* "draw", "done" or "panic"
    \* ---- a surface mutated through write, draw_rect, clear_with, paste_canvas ----
    dest,             \* the canvas the operations act on
    dest_before,      \* the canvas as it was before the last operation
    last_op,          \* the last operation and its arguments
    op_count,         \* how many operations have run
    surface_pc,       \* "run" or "panic"
    \* ---- Sizing::clamped_add ----
    add_self,         \* the Sizing clamped_add is called on
    addend,           \* its argument n
    add_pc,           \* "call" or "done"
    \* ---- geometry::Matrix and Layout::grid ----
    mat_data,         \* the slice handed to with_rows
    mat_rows,         \* the row_count handed to with_rows
    matrix,           \* the Matrix: shape (col_count, row_count) and data
    mat_got,          \* the last get(x, y) and the item it returned
    grid_layout,      \* the Layout that grid built from the Matrix
    matrix_pc,        \* "start", "built" or "panic"
    \* ---- SizedLayout::resolve_draw_commands, one call or return per step ----
    draw_root,        \* the SizedLayout the commands are generated for
    draw_stack,       \* the activations of resolve_draw_commands, outermost first
    commands,         \* the DrawCommands produced so far
    draw_pc,          \* "run", "done", "panic" or "overflow" (the call stack ran out)
    \* ---- the placement of a stack's children (raw_bounds, final_bounds) ----
    place_axis,       \* "Vertical" (VerticalStack) or "Horizontal" (HorizontalStack)
    place_alignment,  \* the stack's cross-axis alignment
    place_spacing,    \* the stack's spacing
    place_nodes,      \* the children's ItemSizing after the distribution loop
    place_bounds,     \* the bounds the stack arm received
    raw_bounds,       \* the 0-based rectangles pushed so far
    last_bounds,      \* the rectangle of the previous child
    max_cross,        \* max_width (VerticalStack) or max_height (HorizontalStack)
    final_bounds,     \* the rectangles the children are rendered into
    place_pc,         \* "place", "placed" or "panic"
    \* ---- AnimatedTextCanvas::run_with_state ----
    pending_events,   \* context.pending_events
    context_commands, \* context.commands
    frame_count,      \* context.frame_count
    events_read,      \* every event crossterm::event::read() returned, in order
    events_pushed,    \* every AnimationEvent the loop pushed, in order
    iterations,       \* how many iterations of the loop have begun
    draws,            \* how many times the loop called canvas.draw_on_buffer()
    polls,            \* how many times the loop called crossterm::event::poll
    renders,          \* how many times the loop called canvas.render_layout
    stop_cause,       \* why the loop was left ("none" while it runs)
    anim_pc           \* "update", "commands", "draw", "poll", "render" or "stopped"

sizing_vars == <<item, fit_bounds, fitted>>
stack_vars  == <<axis, spacing, nodes, extent, greedy_count, static_size,
                 greedy_space, greedy_size, budget, new_nodes, shares, stack_pc>>
layout_vars == <<root_layout, surface, sized, calls, layout_pc>>
text_vars == <<text_rest, text_bounds, text_canvas, prior, cursor, spaces, text_pc>>
surface_vars == <<dest, dest_before, last_op, op_count, surface_pc>>
add_vars == <<add_self, addend, add_pc>>
matrix_vars == <<mat_data, mat_rows, matrix, mat_got, grid_layout, matrix_pc>>
draw_vars == <<draw_root, draw_stack, commands, draw_pc>>
place_vars == <<place_axis, place_alignment, place_spacing, place_nodes, place_bounds,
                raw_bounds, last_bounds, max_cross, final_bounds, place_pc>>

anim_vars == <<pending_events, context_commands, frame_count, events_read, events_pushed,
               iterations, draws, polls, renders, stop_cause, anim_pc>>

----------------------------------------------------------------------------
(* Bounds of the model.                                                    *)

\* usize::MAX of the scaled-down machine word
USIZE_MAX == 63
\* largest payload of a Sizing drawn as an input
MaxSize == 2
\* largest number of children of a stack
MaxChildren == 3
\* largest spacing of a stack
MaxSpacing == 1
\* largest primary-axis extent of the bounds handed to a stack
MaxExtent == 11
\* largest coordinate / extent of the bounds handed to fit_into
MaxBound == 3
\* largest amount of a padding, a border, a Width or a Height
MaxPad == 2
\* largest width and height of the surface of a drawn layout
MaxWidth == 4
MaxHeight == 3
\* largest number of graphemes of a Text drawn one grapheme at a time
MaxText == 4
\* largest number of operations applied to one surface
MaxOps == 2
\* largest width and height of a rectangle drawn on, or pasted into, a surface
MaxRect == 2
\* largest number of items of a Matrix
MaxItems == 6
\* the number of nested activations the call stack has room for
MaxCallDepth == 5

Word == USIZE_MAX + 1

Max(a, b) == IF a >= b THEN a ELSE b
Min(a, b) == IF a <= b THEN a ELSE b

RECURSIVE SumSeq(_)
SumSeq(s) == IF s = <<>> THEN 0 ELSE Head(s) + SumSeq(Tail(s))

----------------------------------------------------------------------------
(* usize arithmetic.                                                       *)

\* a - b on usize without overflow checks: wraps modulo the word
wrapping_sub(a, b) == (a - b + Word) % Word
\* a + b on usize without overflow checks
wrapping_add(a, b) == (a + b) % Word
\* usize::saturating_sub, and checked_sub(n).unwrap_or(0)
saturating_sub(a, b) == IF b > a THEN 0 ELSE a - b
\* `a - b` panics exactly when the build checks overflow and b > a
sub_panics(a, b) == overflow_checks /\ b > a
\* `a + b` panics exactly when the build checks overflow and the sum leaves usize
add_panics(a, b) == overflow_checks /\ a + b > USIZE_MAX

----------------------------------------------------------------------------
(* Sizing and ItemSizing.                                                  *)

Greedy(n) == [variant |-> "Greedy", sz |-> n]
Static(n) == [variant |-> "Static", sz |-> n]

Sizings(S) == {Greedy(n) : n \in S} \cup {Static(n) : n \in S}

ItemSizing(h, v) == [horizontal |-> h, vertical |-> v]

Rect(x, y, w, h) == [x |-> x, y |-> y, width |-> w, height |-> h]

\* the value of `fitted` before any call (no drawn bounds has this origin)
NoRect == [x |-> -9, y |-> -9, width |-> 0, height |-> 0]

min_content_size(s) == s.sz

\* Sizing::clamped_add: checked_add(n).unwrap_or(*sz) keeps sz on overflow
clamped_add(s, n) ==
    [s EXCEPT !.sz = IF s.sz + n > USIZE_MAX THEN s.sz ELSE s.sz + n]

\* one axis of fit_into with the arms swapped (Static takes the bound)
fit_axis_min(s, bound) ==
    IF s.variant = "Greedy" THEN Min(bound, s.sz) ELSE s.sz

\* one axis of ItemSizing::fit_into
fit_axis(s, bound) ==
    IF s.variant = "Greedy" THEN Max(bound, s.sz) ELSE s.sz

fit_into(sizing, bounds) ==
    Rect(bounds.x, bounds.y,
         fit_axis(sizing.horizontal, bounds.width),
         fit_axis(sizing.vertical, bounds.height))

----------------------------------------------------------------------------
(* ItemSizing::fit_into, applied to drawn inputs.                          *)

SizeSamples == 0..MaxSize

ItemSizings ==
    {ItemSizing(h, v) : h \in Sizings(SizeSamples), v \in Sizings(SizeSamples)}

BoundSamples ==
    {Rect(x, y, w, h) : x \in {-1, 0, MaxBound}, y \in {-1, 0, MaxBound},
                        w \in 0..MaxBound, h \in 0..MaxBound}

SizingIdle ==
    /\ item = ItemSizing(Static(0), Static(0))
    /\ fit_bounds = NoRect
    /\ fitted = NoRect

SizingInit ==
    /\ item \in ItemSizings
    /\ fit_bounds = NoRect
    /\ fitted = NoRect

\* a call item.fit_into(&b)
FitInto(b) ==
    /\ fit_bounds' = b
    /\ fitted' = fit_into(item, b)
    /\ UNCHANGED item

----------------------------------------------------------------------------
(* The stack arms of Canvas::render: counting, the elastic budget and the  *)
(* greedy-distribution loop, one child per step.                          *)

RECURSIVE SeqsUpTo(_, _)
SeqsUpTo(S, n) ==
    IF n = 0 THEN {<<>>}
    ELSE LET shorter == SeqsUpTo(S, n - 1)
         IN  shorter \cup {Append(s, e) : s \in {t \in shorter : Len(t) = n - 1}, e \in S}

StackIdle ==
    /\ axis = "Vertical"
    /\ spacing = 0
    /\ nodes = <<>>
    /\ extent = 0
    /\ greedy_count = 0
    /\ static_size = 0
    /\ greedy_space = 0
    /\ greedy_size = 0
    /\ budget = 0
    /\ new_nodes = <<>>
    /\ shares = <<>>
    /\ stack_pc = "idle"

StackInit ==
    /\ axis \in {"Vertical", "Horizontal"}
    /\ spacing \in 0..MaxSpacing
    /\ nodes \in SeqsUpTo(Sizings(SizeSamples), MaxChildren)
    /\ extent \in 0..MaxExtent
    /\ greedy_count = 0
    /\ static_size = 0
    /\ greedy_space = 0
    /\ greedy_size = 0
    /\ budget = 0
    /\ new_nodes = <<>>
    /\ shares = <<>>
    /\ stack_pc = "count"

\* the total spacing with a gap counted for every child, the first included
spacing_sizing_every_child(sp, ns) == sp * Len(ns)

\* spacing * (nodes.len().saturating_sub(1))
spacing_sizing(sp, ns) == sp * saturating_sub(Len(ns), 1)

StaticSizes(ns) ==
    [i \in 1..Len(ns) |-> IF ns[i].variant = "Static" THEN ns[i].sz ELSE 0]

GreedyIndices(ns) == {i \in 1..Len(ns) : ns[i].variant = "Greedy"}

\* the first loop over the children: static_height / static_width and greedy_count
CountSizes ==
    /\ stack_pc = "count"
    /\ static_size' = spacing_sizing(spacing, nodes) + SumSeq(StaticSizes(nodes))
    /\ greedy_count' = Cardinality(GreedyIndices(nodes))
    /\ stack_pc' = "budget"
    /\ UNCHANGED <<axis, spacing, nodes, extent, greedy_space, greedy_size,
                   budget, new_nodes, shares>>

\* let mut greedy_space = bounds.height - static_height;            (VerticalStack)
\* let mut greedy_space = bounds.width.saturating_sub(static_width); (HorizontalStack)
elastic_budget(ax, ext, stat) ==
    IF ax = "Vertical" THEN wrapping_sub(ext, stat) ELSE saturating_sub(ext, stat)

\* the share with the zero count replaced by one instead of being tested
floor_share_min_one(space, count) == space \div Max(count, 1)

\* if greedy_count != 0 { greedy_space / greedy_count } else { 0 }
floor_share(space, count) ==
    IF count # 0 THEN space \div count ELSE 0

ComputeBudget ==
    /\ stack_pc = "budget"
    /\ IF axis = "Vertical" /\ sub_panics(extent, static_size)
       THEN /\ stack_pc' = "panic"
            /\ UNCHANGED <<greedy_space, greedy_size, budget>>
       ELSE LET space == elastic_budget(axis, extent, static_size)
            IN  /\ greedy_space' = space
                /\ budget' = space
                /\ greedy_size' = floor_share(space, greedy_count)
                /\ stack_pc' = "distribute"
    /\ UNCHANGED <<axis, spacing, nodes, extent, greedy_count, static_size,
                   new_nodes, shares>>

\* the body of the Greedy(tight) arm with the .max(tight) clamp dropped
greedy_arm_unclamped(space, share, tight) ==
    LET left     == wrapping_sub(space, share)
        absorbs  == left < share
        node_len == IF absorbs THEN wrapping_add(share, left) ELSE share
    IN  [space |-> IF absorbs THEN 0 ELSE left, node_size |-> node_len,
         sizing |-> Static(node_len)]

\* the body of the Greedy(tight) arm with the test greedy_space <= greedy_size:
\* the rest of the budget is absorbed one child early
greedy_arm_eager(space, share, tight) ==
    LET left     == wrapping_sub(space, share)
        absorbs  == left <= share
        node_len == IF absorbs THEN wrapping_add(share, left) ELSE share
    IN  [space |-> IF absorbs THEN 0 ELSE left, node_size |-> node_len,
         sizing |-> Static(Max(node_len, tight))]

\* the body of the Greedy(tight) arm:
\*   greedy_space -= greedy_size; let mut node_height = greedy_size;
\*   if greedy_space < greedy_size { node_height += greedy_space; greedy_space = 0; }
\*   Static(node_height.max(tight))
greedy_arm(space, share, tight) ==
    LET left     == wrapping_sub(space, share)
        absorbs  == left < share
        node_len == IF absorbs THEN wrapping_add(share, left) ELSE share
    IN  [space |-> IF absorbs THEN 0 ELSE left, node_size |-> node_len,
         sizing |-> Static(Max(node_len, tight))]

\* the Static(sz) arm of the conversion: Static(sz) => Static(sz)
static_arm(s) == Static(s.sz)

\* one iteration of `for node in &nodes` of the distribution loop
Distribute ==
    /\ stack_pc = "distribute"
    /\ Len(new_nodes) < Len(nodes)
    /\ LET n == nodes[Len(new_nodes) + 1]
       IN  IF n.variant = "Static"
           THEN /\ new_nodes' = Append(new_nodes, static_arm(n))
                /\ shares' = Append(shares, n.sz)
                /\ UNCHANGED <<greedy_space, stack_pc>>
           ELSE IF sub_panics(greedy_space, greedy_size)
           THEN /\ stack_pc' = "panic"
                /\ UNCHANGED <<greedy_space, new_nodes, shares>>
           ELSE LET r == greedy_arm(greedy_space, greedy_size, n.sz)
                IN  /\ greedy_space' = r.space
                    /\ new_nodes' = Append(new_nodes, r.sizing)
                    /\ shares' = Append(shares, r.node_size)
                    /\ UNCHANGED stack_pc
    /\ UNCHANGED <<axis, spacing, nodes, extent, greedy_count, static_size,
                   greedy_size, budget>>

\* let nodes = new_nodes;
FinishDistribution ==
    /\ stack_pc = "distribute"
    /\ Len(new_nodes) = Len(nodes)
    /\ stack_pc' = "done"
    /\ UNCHANGED <<axis, spacing, nodes, extent, greedy_count, static_size,
                   greedy_space, greedy_size, budget, new_nodes, shares>>

----------------------------------------------------------------------------
(* The Layout tree (src/src/layout/mod.rs) and its builder.                *)

Text(t)                  == [kind |-> "Text", text |-> t]
Width(n, l)              == [kind |-> "Width", n |-> n, child |-> l]
Height(n, l)             == [kind |-> "Height", n |-> n, child |-> l]
TopPadding(n, l)         == [kind |-> "TopPadding", n |-> n, child |-> l]
RightPadding(n, l)       == [kind |-> "RightPadding", n |-> n, child |-> l]
BottomPadding(n, l)      == [kind |-> "BottomPadding", n |-> n, child |-> l]
LeftPadding(n, l)        == [kind |-> "LeftPadding", n |-> n, child |-> l]
VCenter(l)               == [kind |-> "VCenter", child |-> l]
HCenter(l)               == [kind |-> "HCenter", child |-> l]
VBottomAlign(l)          == [kind |-> "VBottomAlign", child |-> l]
HRightAlign(l)           == [kind |-> "HRightAlign", child |-> l]
VTopAlign(l)             == [kind |-> "VTopAlign", child |-> l]
HLeftAlign(l)            == [kind |-> "HLeftAlign", child |-> l]
Background(c, l)         == [kind |-> "Background", c |-> c, child |-> l]
Border(n, c, edges, l)   == [kind |-> "Border", n |-> n, c |-> c, edges |-> edges,
                             child |-> l]

VerticalStack(alignment, gap, ls) ==
    [kind |-> "VerticalStack", alignment |-> alignment, spacing |-> gap,
     children |-> ls]
HorizontalStack(alignment, gap, ls) ==
    [kind |-> "HorizontalStack", alignment |-> alignment, spacing |-> gap,
     children |-> ls]
\* the callbacks are opaque: a DrawCanvas carries nothing the sizes depend on, a
\* WithContext is the tree its callback returns for the context of the frame
DrawCanvas               == [kind |-> "DrawCanvas"]
WithContext(l)           == [kind |-> "WithContext", returns |-> l]

\* Edge::all / Edge::horizontal / Edge::vertical
EdgeAll        == {"Top", "Right", "Bottom", "Left"}
EdgeHorizontal == {"Right", "Left"}
EdgeVertical   == {"Top", "Bottom"}

\* Layout::center
center(l) == VCenter(HCenter(l))

\* Layout::padding
padding(l, n) == LeftPadding(n, BottomPadding(n, RightPadding(n, TopPadding(n, l))))

\* Layout::background, Layout::border
background(l, c)       == Background(c, l)
border(l, n, c, edges) == Border(n, c, edges, l)

----------------------------------------------------------------------------
(* Layout::resolve_size.                                                   *)

\* A SizedLayout; panic is TRUE when the call unwound instead of returning.
SizedLayout(node, sizing, panic) == [node |-> node, sizing |-> sizing, panic |-> panic]

\* str::lines on a sequence of graphemes: split at "\n", no empty last line
RECURSIVE lines(_)
lines(t) ==
    IF t = <<>> THEN <<>>
    ELSE LET breaks == {i \in 1..Len(t) : t[i] = "\n"}
         IN  IF breaks = {} THEN <<t>>
             ELSE LET k == CHOOSE i \in breaks : \A j \in breaks : i <= j
                  IN  <<SubSeq(t, 1, k - 1)>> \o lines(SubSeq(t, k + 1, Len(t)))

\* ((len as f64) / (width as f64)).ceil() as usize: x/0.0 is +inf (cast to
\* usize::MAX), 0/0.0 is NaN (cast to 0)
line_rows(len, width) ==
    IF width = 0 THEN (IF len = 0 THEN 0 ELSE USIZE_MAX)
    ELSE (len + width - 1) \div width

\* calculate_line_size that never wraps a long line
calculate_line_size_unwrapped(len, bounds) == [width |-> len, height |-> 1]

\* Layout::calculate_line_size, of a line of len graphemes
calculate_line_size(len, bounds) ==
    LET rows == line_rows(len, bounds.width)
    IN  IF rows < 2 THEN [width |-> len, height |-> 1]
        ELSE [width |-> bounds.width, height |-> rows]

\* the loop of the Text arm over the lines ls, from accumulator acc
RECURSIVE text_size(_, _, _)
text_size(ls, bounds, acc) ==
    IF ls = <<>> \/ acc.panic THEN acc
    ELSE LET sz == calculate_line_size(Len(Head(ls)), bounds)
         IN  text_size(Tail(ls), bounds,
                 [width  |-> Max(acc.width, sz.width),
                  height |-> wrapping_add(acc.height, sz.height),
                  panic  |-> add_panics(acc.height, sz.height)])

with_horizontal(sizing, h) == [sizing EXCEPT !.horizontal = h]
with_vertical(sizing, v)   == [sizing EXCEPT !.vertical = v]

\* the node an alignment arm builds: the HLeftAlign arm builds an HRightAlign
aligned_kind(kind) == IF kind = "HLeftAlign" THEN "HRightAlign" ELSE kind

\* the frame of a Border: thickness n added once per selected edge of the axis
border_added(s, n, edges, first, second) ==
    LET a == IF first \in edges THEN clamped_add(s, n) ELSE s
    IN  IF second \in edges THEN clamped_add(a, n) ELSE a

\* Sizing::clamped_accumulate: the sizing and whether the Greedy arm's plain
\* addition panicked
clamped_accumulate(self, other) ==
    IF self.variant = "Static"
    THEN [sizing |-> clamped_add(other, self.sz), panic |-> FALSE]
    ELSE [sizing |-> Greedy(wrapping_add(self.sz, min_content_size(other))),
          panic |-> add_panics(self.sz, min_content_size(other))]

\* the cross-axis result of a stack after one more child
cross_accumulate(result, node_sizing) ==
    IF result.variant = "Static"
    THEN [variant |-> node_sizing.variant, sz |-> Max(node_sizing.sz, result.sz)]
    ELSE Greedy(Max(min_content_size(node_sizing), result.sz))

\* the loop of a stack arm over its resolved children, from the result acc
RECURSIVE stack_result(_, _, _)
stack_result(resolved_children, vertical, acc) ==
    IF resolved_children = <<>> \/ acc.panic THEN acc
    ELSE LET node_sizing == Head(resolved_children).sizing
             main == clamped_accumulate(
                         IF vertical THEN acc.sizing.vertical ELSE acc.sizing.horizontal,
                         IF vertical THEN node_sizing.vertical ELSE node_sizing.horizontal)
             cross == cross_accumulate(
                         IF vertical THEN acc.sizing.horizontal ELSE acc.sizing.vertical,
                         IF vertical THEN node_sizing.horizontal ELSE node_sizing.vertical)
         IN  stack_result(Tail(resolved_children), vertical,
                 [sizing |-> IF vertical THEN ItemSizing(cross, main.sizing)
                             ELSE ItemSizing(main.sizing, cross),
                  panic |-> main.panic \/ Head(resolved_children).panic])

\* bounds -= spacing_sizing on the primary axis of a stack: the subtraction is
\* unchecked
stack_bounds_wrapping(bounds, vertical, gaps) ==
    IF vertical
    THEN [bounds EXCEPT !.height = wrapping_sub(bounds.height, gaps)]
    ELSE [bounds EXCEPT !.width = wrapping_sub(bounds.width, gaps)]

RECURSIVE resolve_size(_, _)
RECURSIVE resolve_children(_, _)

\* node.resolve_size(&bounds, context) for every node of a stack, in order
resolve_children(ls, bounds) ==
    IF ls = <<>> THEN <<>>
    ELSE <<resolve_size(Head(ls), bounds)>> \o resolve_children(Tail(ls), bounds)

resolve_size(l, bounds) ==
    CASE l.kind = "Text" ->
            LET r == text_size(lines(l.text), bounds,
                               [width |-> 0, height |-> 0, panic |-> FALSE])
            IN  SizedLayout([kind |-> "Text", text |-> l.text],
                            ItemSizing(Static(r.width), Static(r.height)), r.panic)
      [] l.kind \in {"VCenter", "VBottomAlign", "VTopAlign"} ->
            LET resolved == resolve_size(l.child, bounds)
                min_height == min_content_size(resolved.sizing.vertical)
            IN  SizedLayout([kind |-> l.kind, child |-> resolved],
                            ItemSizing(resolved.sizing.horizontal, Greedy(min_height)),
                            resolved.panic)
      [] l.kind \in {"HCenter", "HRightAlign", "HLeftAlign"} ->
            LET resolved == resolve_size(l.child, bounds)
                min_width == min_content_size(resolved.sizing.horizontal)
            IN  SizedLayout([kind |-> aligned_kind(l.kind), child |-> resolved],
                            ItemSizing(Greedy(min_width), resolved.sizing.vertical),
                            resolved.panic)
      [] l.kind = "Width" ->
            LET resolved_content == resolve_size(l.child, [bounds EXCEPT !.width = l.n])
            IN  SizedLayout([kind |-> "Width", n |-> l.n, child |-> resolved_content],
                            with_horizontal(resolved_content.sizing, Static(l.n)),
                            resolved_content.panic)
      [] l.kind = "Height" ->
            LET resolved_content == resolve_size(l.child, [bounds EXCEPT !.height = l.n])
            IN  SizedLayout([kind |-> "Height", n |-> l.n, child |-> resolved_content],
                            with_vertical(resolved_content.sizing, Static(l.n)),
                            resolved_content.panic)
      [] l.kind \in {"TopPadding", "BottomPadding"} ->
            LET resolved == resolve_size(l.child, bounds)
                frame == with_vertical(resolved.sizing,
                                       clamped_add(resolved.sizing.vertical, l.n))
            IN  IF resolved.panic THEN resolved
                ELSE IF min_content_size(frame.vertical) > bounds.height
                THEN \* recalculate with less space
                     LET less == [bounds EXCEPT !.height = saturating_sub(bounds.height, l.n)]
                         resolved_content == resolve_size(l.child, less)
                     IN  SizedLayout(
                             [kind |-> l.kind, n |-> l.n, child |-> resolved_content],
                             with_vertical(resolved_content.sizing,
                                 clamped_add(resolved_content.sizing.vertical, l.n)),
                             resolved_content.panic)
                ELSE SizedLayout([kind |-> l.kind, n |-> l.n, child |-> resolved],
                                 frame, FALSE)
      [] l.kind \in {"LeftPadding", "RightPadding"} ->
            LET resolved == resolve_size(l.child, bounds)
                frame == with_horizontal(resolved.sizing,
                                         clamped_add(resolved.sizing.horizontal, l.n))
            IN  IF resolved.panic THEN resolved
                ELSE IF min_content_size(frame.horizontal) > bounds.width
                THEN \* recalculate with less space
                     LET less == [bounds EXCEPT !.width = saturating_sub(bounds.width, l.n)]
                         resolved_content == resolve_size(l.child, less)
                     IN  SizedLayout(
                             [kind |-> l.kind, n |-> l.n, child |-> resolved_content],
                             with_horizontal(resolved_content.sizing,
                                 clamped_add(resolved_content.sizing.horizontal, l.n)),
                             resolved_content.panic)
                ELSE SizedLayout([kind |-> l.kind, n |-> l.n, child |-> resolved],
                                 frame, FALSE)
      [] l.kind = "Background" ->
            LET resolved_content == resolve_size(l.child, bounds)
            IN  SizedLayout([kind |-> "Background", c |-> l.c, child |-> resolved_content],
                            resolved_content.sizing, resolved_content.panic)
      [] l.kind = "Border" ->
            LET outer_bounds == bounds
                first  == resolve_size(l.child, outer_bounds)
                frame1 == with_vertical(first.sizing,
                              border_added(first.sizing.vertical, l.n, l.edges,
                                           "Top", "Bottom"))
                vshrunk == min_content_size(frame1.vertical) > outer_bounds.height
                \* recalculate with less space (vertical)
                second == IF vshrunk
                          THEN resolve_size(l.child,
                                   [outer_bounds EXCEPT
                                        !.height = saturating_sub(outer_bounds.height, l.n)])
                          ELSE first
                frame2 == IF vshrunk
                          THEN with_vertical(second.sizing,
                                   clamped_add(second.sizing.vertical, l.n))
                          ELSE frame1
                frame3 == with_horizontal(frame2,
                              border_added(frame2.horizontal, l.n, l.edges,
                                           "Left", "Right"))
                hshrunk == min_content_size(frame3.horizontal) > outer_bounds.width
                \* recalculate with less space (horizontal)
                third  == IF hshrunk
                          THEN resolve_size(l.child,
                                   [outer_bounds EXCEPT
                                        !.width = saturating_sub(outer_bounds.width, l.n)])
                          ELSE second
                frame4 == IF hshrunk
                          THEN with_horizontal(third.sizing,
                                   clamped_add(third.sizing.horizontal, l.n))
                          ELSE frame3
            IN  IF first.panic THEN first
                ELSE IF second.panic THEN second
                ELSE SizedLayout([kind |-> "Border", n |-> l.n, c |-> l.c,
                                  edges |-> l.edges, child |-> third],
                                 frame4, third.panic)
      [] l.kind \in {"VerticalStack", "HorizontalStack"} ->
            LET vertical == l.kind = "VerticalStack"
                gaps == spacing_sizing(l.spacing, l.children)
                primary == IF vertical THEN bounds.height ELSE bounds.width
                less == stack_bounds_wrapping(bounds, vertical, gaps)
                resolved_children == resolve_children(l.children, less)
                result == stack_result(resolved_children, vertical,
                              [sizing |-> IF vertical
                                          THEN ItemSizing(Static(0), Static(gaps))
                                          ELSE ItemSizing(Static(gaps), Static(0)),
                               panic |-> FALSE])
            IN  IF sub_panics(primary, gaps)
                THEN SizedLayout([kind |-> l.kind], ItemSizing(Static(0), Static(0)), TRUE)
                ELSE SizedLayout([kind |-> l.kind, alignment |-> l.alignment,
                                  spacing |-> l.spacing, children |-> resolved_children],
                                 result.sizing, result.panic)
      [] l.kind = "DrawCanvas" ->
            SizedLayout([kind |-> "DrawCanvas"], ItemSizing(Greedy(1), Greedy(1)), FALSE)
      [] l.kind = "WithContext" -> resolve_size(l.returns, bounds)

----------------------------------------------------------------------------
(* TextCanvas (src/src/canvas.rs): the surface and its mutators.           *)

\* `v as usize` of an i64
as_usize(v) == v % Word
\* `u as i64` of a usize: the upper half of the word is negative
as_i64(u) == IF u >= Word \div 2 THEN u - Word ELSE u

Blank == " "

\* TextCanvas::create
create(width, height) ==
    [size |-> [width |-> width, height |-> height],
     contents |-> [i \in 1..(width * height) |-> Blank]]

\* the cell (x, y) of a canvas; what get_at returns inside the surface
cell_at(canvas, x, y) == canvas.contents[y * canvas.size.width + x + 1]

\* TextCanvas::write without the bounds test on x: the index runs into the next row
write_unchecked_x(canvas, grapheme, x, y) ==
    IF y * canvas.size.width + x + 1 > Len(canvas.contents) THEN canvas
    ELSE [canvas EXCEPT !.contents[y * canvas.size.width + x + 1] = grapheme]

\* TextCanvas::write
write(canvas, grapheme, x, y) ==
    IF x >= canvas.size.width \/ y >= canvas.size.height THEN canvas
    ELSE [canvas EXCEPT !.contents[y * canvas.size.width + x + 1] = grapheme]

\* whether draw_rect's loops over bounds reach the point (x, y)
in_rect(bounds, x, y) ==
    /\ bounds.x <= x /\ x < bounds.x + as_i64(bounds.width)
    /\ bounds.y <= y /\ y < bounds.y + as_i64(bounds.height)

\* the points of draw_rect's two loops that pass both `continue` tests
rect_points(canvas, bounds) ==
    {p \in (0..(canvas.size.width - 1)) \X (0..(canvas.size.height - 1)) :
        in_rect(bounds, p[1], p[2])}

\* self.write(grapheme, x, y) for every point of a set (the points are distinct
\* cells, so the order of the loops does not show in the result)
RECURSIVE write_all(_, _, _)
write_all(canvas, points, grapheme) ==
    IF points = {} THEN canvas
    ELSE LET p == CHOOSE q \in points : TRUE
         IN  write_all(write(canvas, grapheme, p[1], p[2]), points \ {p}, grapheme)

\* TextCanvas::draw_rect: every point of bounds inside the surface is written
draw_rect(canvas, bounds, grapheme) ==
    write_all(canvas, rect_points(canvas, bounds), grapheme)

\* TextCanvas::clear_with
clear_with(canvas, grapheme) ==
    draw_rect(canvas, Rect(0, 0, canvas.size.width, canvas.size.height), grapheme)

\* paste_canvas from the k-th iteration of its loops on (x outer, y inner):
\* the canvas and whether an addition of the target position panicked
RECURSIVE paste_from(_, _, _, _)
paste_from(canvas, other, bounds, k) ==
    IF k >= bounds.width * bounds.height THEN [canvas |-> canvas, panic |-> FALSE]
    ELSE LET x == k \div bounds.height
             y == k % bounds.height
             bx == as_usize(bounds.x)
             by == as_usize(bounds.y)
         IN  IF add_panics(x, bx) \/ add_panics(y, by)
             THEN [canvas |-> canvas, panic |-> TRUE]
             ELSE IF x >= other.size.width \/ y >= other.size.height   \* None => continue
             THEN paste_from(canvas, other, bounds, k + 1)
             ELSE paste_from(write(canvas, cell_at(other, x, y),
                                   wrapping_add(x, bx), wrapping_add(y, by)),
                             other, bounds, k + 1)

\* paste_canvas without its two assert_eq!: a smaller or larger sub-surface is
\* composited as far as it reaches
paste_canvas_unasserted(canvas, other, bounds) == paste_from(canvas, other, bounds, 0)

\* TextCanvas::paste_canvas / Canvas::paste_canvas
paste_canvas(canvas, other, bounds) ==
    IF other.size.width # bounds.width \/ other.size.height # bounds.height
    THEN [canvas |-> canvas, panic |-> TRUE]     \* assert_eq! fails
    ELSE paste_from(canvas, other, bounds, 0)

----------------------------------------------------------------------------
(* TextCanvas::render.                                                     *)

\* the Text arm's loop body that writes the space grapheme like any other
text_step_opaque(cur, g, bounds) ==
    LET bx == as_usize(bounds.x)
    IN  IF g = "\n"
        THEN [cur EXCEPT !.y = wrapping_add(cur.y, 1), !.x = bx,
                         !.panic = add_panics(cur.y, 1)]
        ELSE LET x1 == wrapping_add(cur.x, 1)
                 wrapped == wrapping_sub(x1, bx) >= bounds.width
             IN  [canvas |-> write(cur.canvas, g, cur.x, cur.y),
                  x |-> IF wrapped THEN bx ELSE x1,
                  y |-> IF wrapped THEN wrapping_add(cur.y, 1) ELSE cur.y,
                  panic |-> \/ add_panics(cur.x, 1)
                            \/ sub_panics(x1, bx)
                            \/ (wrapped /\ add_panics(cur.y, 1))]

\* one iteration of `for g in graphemes` of the Text arm, on the cursor
\* cur = (x, y), the canvas and the panic flag
text_step(cur, g, bounds) ==
    LET bx == as_usize(bounds.x)
    IN  IF g = "\n"
        THEN [cur EXCEPT !.y = wrapping_add(cur.y, 1), !.x = bx,
                         !.panic = add_panics(cur.y, 1)]
        ELSE LET x1 == wrapping_add(cur.x, 1)
                 wrapped == wrapping_sub(x1, bx) >= bounds.width
             IN  [canvas |-> IF g = " " THEN cur.canvas   \* Don't write anything
                             ELSE write(cur.canvas, g, cur.x, cur.y),
                  x |-> IF wrapped THEN bx ELSE x1,
                  y |-> IF wrapped THEN wrapping_add(cur.y, 1) ELSE cur.y,
                  panic |-> \/ add_panics(cur.x, 1)
                            \/ sub_panics(x1, bx)
                            \/ (wrapped /\ add_panics(cur.y, 1))]

\* the cursor before the first grapheme
text_start(canvas, bounds) ==
    [canvas |-> canvas, x |-> as_usize(bounds.x), y |-> as_usize(bounds.y),
     panic |-> FALSE]

\* the whole loop of the Text arm
RECURSIVE draw_text(_, _, _)
draw_text(cur, graphemes, bounds) ==
    IF graphemes = <<>> \/ cur.panic THEN cur
    ELSE draw_text(text_step(cur, Head(graphemes), bounds), Tail(graphemes), bounds)

\* a rectangle computed by an arm, or the panic of its arithmetic
Frame(rect, panic) == [rect |-> rect, panic |-> panic]

\* the arms that centre: VCenter (vertical = TRUE) and HCenter
center_frame(sizing, bounds, vertical) ==
    LET content_rect == fit_into(sizing, bounds)
        origin == IF vertical THEN as_usize(bounds.y) ELSE as_usize(bounds.x)
        half == IF vertical THEN bounds.height \div 2 ELSE bounds.width \div 2
        content_half == IF vertical THEN content_rect.height \div 2
                        ELSE content_rect.width \div 2
        center_pos == wrapping_add(origin, half)
        center_start == wrapping_sub(center_pos, content_half)
        moved == IF vertical THEN [content_rect EXCEPT !.y = as_i64(center_start)]
                 ELSE [content_rect EXCEPT !.x = as_i64(center_start)]
    IN  Frame(fit_into(sizing, moved),
              add_panics(origin, half) \/ sub_panics(center_pos, content_half))

\* the arms that align to the far edge: VBottomAlign (vertical = TRUE) and HRightAlign
far_edge_frame(sizing, bounds, vertical) ==
    LET content_rect == fit_into(sizing, bounds)
        origin == IF vertical THEN as_usize(bounds.y) ELSE as_usize(bounds.x)
        length == IF vertical THEN bounds.height ELSE bounds.width
        content_length == IF vertical THEN content_rect.height ELSE content_rect.width
        far_most == wrapping_add(origin, length)
        start == wrapping_sub(far_most, content_length)
        moved == IF vertical THEN [content_rect EXCEPT !.y = as_i64(start)]
                 ELSE [content_rect EXCEPT !.x = as_i64(start)]
    IN  Frame(IF vertical THEN moved ELSE fit_into(sizing, moved),
              add_panics(origin, length) \/ sub_panics(far_most, content_length))

\* the inner bounds of a Border: each selected edge takes n
border_inner(bounds, n, edges) ==
    LET rows == (IF "Top" \in edges THEN 1 ELSE 0) + (IF "Bottom" \in edges THEN 1 ELSE 0)
        cols == (IF "Left" \in edges THEN 1 ELSE 0) + (IF "Right" \in edges THEN 1 ELSE 0)
    IN  Rect(IF "Left" \in edges THEN bounds.x + as_i64(n) ELSE bounds.x,
             IF "Top" \in edges THEN bounds.y + as_i64(n) ELSE bounds.y,
             saturating_sub(bounds.width, cols * n),
             saturating_sub(bounds.height, rows * n))

\* the TopPadding / LeftPadding arms without the shift of the origin
child_frame_unshifted(layout, bounds) ==
    LET node == layout.node
        sizing == node.child.sizing
    IN  Frame(fit_into(sizing, bounds), FALSE)

\* the rectangle an arm of render hands to the node's child
child_frame(layout, bounds) ==
    LET node == layout.node
        sizing == node.child.sizing
    IN  CASE node.kind \in {"Width", "Height"} -> Frame(fit_into(sizing, bounds), FALSE)
          [] node.kind = "VCenter" -> center_frame(sizing, bounds, TRUE)
          [] node.kind = "HCenter" -> center_frame(sizing, bounds, FALSE)
          [] node.kind = "VBottomAlign" -> far_edge_frame(sizing, bounds, TRUE)
          [] node.kind = "HRightAlign" -> far_edge_frame(sizing, bounds, FALSE)
          [] node.kind \in {"VTopAlign", "HLeftAlign"} ->
                Frame(fit_into(sizing, bounds), FALSE)
          [] node.kind = "TopPadding" ->
                LET less == [bounds EXCEPT !.height = saturating_sub(bounds.height, node.n)]
                    frame == fit_into(sizing, less)
                IN  Frame([frame EXCEPT !.x = less.x, !.y = less.y + as_i64(node.n)], FALSE)
          [] node.kind = "BottomPadding" ->
                LET less == [bounds EXCEPT !.height = saturating_sub(bounds.height, node.n)]
                    frame == fit_into(sizing, less)
                IN  Frame([frame EXCEPT !.x = less.x, !.y = less.y], FALSE)
          [] node.kind = "RightPadding" ->
                LET frame == fit_into(sizing, bounds)
                    free_width == saturating_sub(bounds.width, node.n)
                    adjustment == saturating_sub(frame.width, free_width)
                IN  Frame([frame EXCEPT !.x = bounds.x, !.y = bounds.y,
                                        !.width = saturating_sub(frame.width, adjustment)],
                          FALSE)
          [] node.kind = "LeftPadding" ->
                LET less == [bounds EXCEPT !.width = saturating_sub(bounds.width, node.n)]
                    frame == fit_into(sizing, less)
                IN  Frame([frame EXCEPT !.x = less.x + as_i64(node.n), !.y = less.y], FALSE)
          [] node.kind = "Background" ->
                LET frame == fit_into(sizing, bounds)
                IN  Frame([frame EXCEPT !.x = bounds.x, !.y = bounds.y], FALSE)
          [] node.kind = "Border" ->
                LET inner_bounds == border_inner(bounds, node.n, node.edges)
                    frame == fit_into(sizing, inner_bounds)
                IN  Frame([frame EXCEPT !.x = inner_bounds.x, !.y = inner_bounds.y], FALSE)

\* the strip of a Border along one edge of the outer bounds
edge_strip(outer_bounds, n, edge) ==
    CASE edge = "Top" -> Rect(outer_bounds.x, outer_bounds.y, outer_bounds.width, n)
      [] edge = "Right" ->
            Rect(outer_bounds.x + as_i64(outer_bounds.width) - as_i64(n), outer_bounds.y,
                 n, outer_bounds.height)
      [] edge = "Bottom" ->
            Rect(outer_bounds.x, outer_bounds.y + as_i64(outer_bounds.height) - as_i64(n),
                 outer_bounds.width, n)
      [] edge = "Left" -> Rect(outer_bounds.x, outer_bounds.y, n, outer_bounds.height)

\* the second loop of the Border arm: one draw_rect per selected edge
RECURSIVE draw_edges(_, _, _, _, _)
draw_edges(canvas, outer_bounds, n, c, edges) ==
    IF edges = {} THEN canvas
    ELSE LET edge == CHOOSE e \in edges : TRUE
         IN  draw_edges(draw_rect(canvas, edge_strip(outer_bounds, n, edge), c),
                        outer_bounds, n, c, edges \ {edge})

\* one entry of the record of render calls: the node and the bounds it received
Call(layout, bounds) ==
    [kind |-> layout.node.kind, sizing |-> layout.sizing, bounds |-> bounds]

\* the Background arm before it recurses: self.draw_rect(bounds, &c.to_string())
background_fill(canvas, bounds, c) == draw_rect(canvas, bounds, c)

\* TextCanvas::render on st = (canvas, panic, calls so far)
RECURSIVE render(_, _, _)
render(layout, bounds, st) ==
    IF st.panic THEN st
    ELSE
    LET node == layout.node
        entered == [st EXCEPT !.calls = Append(@, Call(layout, bounds))]
    IN  CASE node.kind = "Text" ->
                LET cur == draw_text(text_start(entered.canvas, bounds), node.text, bounds)
                IN  [entered EXCEPT !.canvas = cur.canvas, !.panic = cur.panic]
          [] node.kind = "Background" ->
                render(node.child, child_frame(layout, bounds).rect,
                       [entered EXCEPT !.canvas = background_fill(@, bounds, node.c)])
          [] node.kind = "Border" ->
                LET drawn == render(node.child, child_frame(layout, bounds).rect, entered)
                IN  IF drawn.panic THEN drawn
                    ELSE [drawn EXCEPT
                             !.canvas = draw_edges(@, bounds, node.n, node.c, node.edges)]
          [] OTHER ->
                LET frame == child_frame(layout, bounds)
                IN  IF frame.panic THEN [entered EXCEPT !.panic = TRUE]
                    ELSE render(node.child, frame.rect, entered)

----------------------------------------------------------------------------
(* TextCanvas::render_layout on drawn layouts and surfaces.                *)

Texts == { <<"H", "i">>, <<"a", " ", "b">>, <<"a", "b", "\n", "c">> }

Amounts == 1..MaxPad

EdgeSets == {EdgeAll, EdgeHorizontal, EdgeVertical, {"Top"}}

\* every node the builder can wrap around l
Wrapped(l) ==
    {Width(n, l) : n \in Amounts} \cup {Height(n, l) : n \in Amounts}
    \cup {TopPadding(n, l) : n \in Amounts} \cup {RightPadding(n, l) : n \in Amounts}
    \cup {BottomPadding(n, l) : n \in Amounts} \cup {LeftPadding(n, l) : n \in Amounts}
    \cup {VCenter(l), HCenter(l), VBottomAlign(l), HRightAlign(l), VTopAlign(l),
          HLeftAlign(l)}
    \cup {Background(".", l)}
    \cup {Border(n, "#", edges, l) : n \in Amounts, edges \in EdgeSets}

Leaves == {Text(t) : t \in Texts}

Depth1 == UNION {Wrapped(l) : l \in Leaves}

Depth2 == UNION {Wrapped(l) : l \in Depth1}

Layouts == Leaves \cup Depth1 \cup Depth2

\* Text("Hi").center().padding(2).background('.').border(1, '#', Edge::all())
HiLayout == border(background(padding(center(Text(<<"H", "i">>)), 2), "."), 1, "#", EdgeAll)

\* the surface of the Hi scenario
HiSurface == [width |-> 10, height |-> 5]

NoLayout == SizedLayout([kind |-> "None"], ItemSizing(Static(0), Static(0)), FALSE)

LayoutIdle ==
    /\ root_layout = Text(<<>>)
    /\ surface = create(0, 0)
    /\ sized = NoLayout
    /\ calls = <<>>
    /\ layout_pc = "idle"

LayoutInit ==
    /\ \/ /\ root_layout \in Layouts
          /\ \E w \in 0..MaxWidth, h \in 0..MaxHeight : surface = create(w, h)
       \/ /\ root_layout = HiLayout
          /\ surface = create(HiSurface.width, HiSurface.height)
    /\ sized = NoLayout
    /\ calls = <<>>
    /\ layout_pc = "start"

\* Rect::sized(self.size.width, self.size.height)
self_bounds == Rect(0, 0, surface.size.width, surface.size.height)

\* render_layout, first half: let layout = layout.resolve_size(&self_bounds, context)
ResolveSize ==
    /\ layout_pc = "start"
    /\ LET resolved == resolve_size(root_layout, self_bounds)
       IN  /\ sized' = resolved
           /\ layout_pc' = IF resolved.panic THEN "panic" ELSE "resolved"
    /\ UNCHANGED <<root_layout, surface, calls>>

\* render_layout, second half: bounds = layout.sizing.fit_into(&self_bounds);
\* self.render(&layout, &bounds, context)
Render ==
    /\ layout_pc = "resolved"
    /\ LET bounds == fit_into(sized.sizing, self_bounds)
           drawn == render(sized, bounds, [canvas |-> surface, panic |-> FALSE,
                                           calls |-> <<>>])
       IN  /\ surface' = drawn.canvas
           /\ calls' = drawn.calls
           /\ layout_pc' = IF drawn.panic THEN "panic" ELSE "rendered"
    /\ UNCHANGED <<root_layout, sized>>

----------------------------------------------------------------------------
(* The Text arm of TextCanvas::render, one loop iteration per step.        *)

Graphemes == {"a", " ", "\n"}

\* the surface the Text leaves are drawn on
TextSurface == [width |-> 3, height |-> 2]

\* a surface a Background has filled, and one whose cells all differ
PriorCanvases ==
    { draw_rect(create(TextSurface.width, TextSurface.height),
                Rect(0, 0, TextSurface.width, TextSurface.height), "."),
      [size |-> TextSurface,
       contents |-> [i \in 1..(TextSurface.width * TextSurface.height) |-> ToString(i)]] }

TextBounds ==
    {Rect(x, y, w, 1) : x \in {-1, 0, 1}, y \in {0, 1}, w \in 0..MaxBound}

TextIdle ==
    /\ text_rest = <<>>
    /\ text_bounds = NoRect
    /\ text_canvas = create(0, 0)
    /\ prior = create(0, 0)
    /\ cursor = [x |-> 0, y |-> 0]
    /\ spaces = {}
    /\ text_pc = "idle"

\* let mut x = bounds.x as usize; let mut y = bounds.y as usize;
TextInit ==
    /\ text_rest \in SeqsUpTo(Graphemes, MaxText)
    /\ text_bounds \in TextBounds
    /\ text_canvas \in PriorCanvases
    /\ prior = text_canvas
    /\ cursor = [x |-> as_usize(text_bounds.x), y |-> as_usize(text_bounds.y)]
    /\ spaces = {}
    /\ text_pc = "draw"

\* one iteration of `for g in graphemes`
DrawGrapheme ==
    /\ text_pc = "draw"
    /\ text_rest # <<>>
    /\ LET g == Head(text_rest)
           step == text_step([canvas |-> text_canvas, x |-> cursor.x, y |-> cursor.y,
                              panic |-> FALSE], g, text_bounds)
       IN  /\ text_canvas' = step.canvas
           /\ cursor' = [x |-> step.x, y |-> step.y]
           /\ spaces' = IF g = " " THEN spaces \cup {<<cursor.x, cursor.y>>} ELSE spaces
           /\ text_pc' = IF step.panic THEN "panic" ELSE "draw"
    /\ text_rest' = Tail(text_rest)
    /\ UNCHANGED <<text_bounds, prior>>

\* the loop has run out of graphemes
FinishText ==
    /\ text_pc = "draw"
    /\ text_rest = <<>>
    /\ text_pc' = "done"
    /\ UNCHANGED <<text_rest, text_bounds, text_canvas, prior, cursor, spaces>>

----------------------------------------------------------------------------
(* A surface under sequences of write, draw_rect, clear_with, paste_canvas. *)

SurfaceSamples == {create(2, 2), create(1, 3), create(0, 1)}

\* offsets left of, above, on and past the origin of the surface
Offsets == {-1, 0, 1}

\* cell positions inside, just past and far past every surface
Positions == {0, 1, 2, USIZE_MAX}

\* a sub-surface a DrawCanvas callback returned: every cell holds "c"
SubSurface(w, h) == draw_rect(create(w, h), Rect(0, 0, w, h), "c")

NoOp == [kind |-> "none"]

SurfaceIdle ==
    /\ dest = create(0, 0)
    /\ dest_before = create(0, 0)
    /\ last_op = NoOp
    /\ op_count = 0
    /\ surface_pc = "idle"

SurfaceInit ==
    /\ dest \in SurfaceSamples
    /\ dest_before = dest
    /\ last_op = NoOp
    /\ op_count = 0
    /\ surface_pc = "run"

\* what every operation does to the bookkeeping
Operated(op) ==
    /\ dest_before' = dest
    /\ last_op' = op
    /\ op_count' = op_count + 1

\* TextCanvas::write(grapheme, x, y)
Write(grapheme, x, y) ==
    /\ surface_pc = "run" /\ op_count < MaxOps
    /\ dest' = write(dest, grapheme, x, y)
    /\ Operated([kind |-> "write", grapheme |-> grapheme, x |-> x, y |-> y])
    /\ UNCHANGED surface_pc

\* TextCanvas::draw_rect(bounds, grapheme)
DrawRect(bounds, grapheme) ==
    /\ surface_pc = "run" /\ op_count < MaxOps
    /\ dest' = draw_rect(dest, bounds, grapheme)
    /\ Operated([kind |-> "draw_rect", bounds |-> bounds, grapheme |-> grapheme])
    /\ UNCHANGED surface_pc

\* TextCanvas::clear_with(grapheme)
ClearWith(grapheme) ==
    /\ surface_pc = "run" /\ op_count < MaxOps
    /\ dest' = clear_with(dest, grapheme)
    /\ Operated([kind |-> "clear_with", grapheme |-> grapheme])
    /\ UNCHANGED surface_pc

\* the DrawCanvas arm of render: let result = action(context, bounds);
\* self.paste_canvas(&result, bounds)
PasteCanvas(other, bounds) ==
    /\ surface_pc = "run" /\ op_count < MaxOps
    /\ LET pasted == paste_canvas(dest, other, bounds)
       IN  /\ dest' = pasted.canvas
           /\ surface_pc' = IF pasted.panic THEN "panic" ELSE "run"
    /\ Operated([kind |-> "paste_canvas", other |-> other, bounds |-> bounds])

----------------------------------------------------------------------------
(* resolve_size on stacks and on the callback nodes.                       *)

\* the children the resolved stacks are built from
StackChildren ==
    { Text(<<"H", "i">>), HCenter(Text(<<"H", "i">>)),
      TopPadding(1, Text(<<"a", "b", "\n", "c">>)), DrawCanvas,
      WithContext(VCenter(Text(<<"H", "i">>))) }

StackLayouts ==
    {VerticalStack("Center", gap, ls) :
        gap \in 0..MaxSpacing, ls \in SeqsUpTo(StackChildren, MaxChildren)}
    \cup {HorizontalStack("Center", gap, ls) :
            gap \in 0..MaxSpacing, ls \in SeqsUpTo(StackChildren, MaxChildren)}

\* the bounds the stacks are resolved against: none, less than and more than
\* the spacing asks for
ResolveExtents == {0, 1, 3}

ResolveInit ==
    /\ root_layout \in StackLayouts \cup StackChildren
    /\ \E w \in ResolveExtents, h \in ResolveExtents : surface = create(w, h)
    /\ sized = NoLayout
    /\ calls = <<>>
    /\ layout_pc = "start"

----------------------------------------------------------------------------
(* Sizing::clamped_add near both ends of the machine word.                 *)

\* payloads close to zero and close to usize::MAX
WordSamples == (0..MaxSize) \cup {USIZE_MAX - k : k \in 0..MaxSize}

AddIdle ==
    /\ add_self = Static(0)
    /\ addend = 0
    /\ add_pc = "idle"

AddInit ==
    /\ add_self \in Sizings(WordSamples)
    /\ addend \in WordSamples
    /\ add_pc = "call"

\* self.clamped_add(n): the Sizing is changed in place
ClampedAdd ==
    /\ add_pc = "call"
    /\ add_self' = clamped_add(add_self, addend)
    /\ add_pc' = "done"
    /\ UNCHANGED addend

----------------------------------------------------------------------------
(* geometry::Matrix and Layout::grid.                                      *)

\* n distinct items
Items(n) == [i \in 1..n |-> ToString(i)]

NoMatrix == [shape |-> <<0, 0>>, data |-> <<>>]

NoItem == [x |-> 0, y |-> 0, item |-> ""]

NoGrid == [kind |-> "None"]

MatrixIdle ==
    /\ mat_data = <<>>
    /\ mat_rows = 0
    /\ matrix = NoMatrix
    /\ mat_got = NoItem
    /\ grid_layout = NoGrid
    /\ matrix_pc = "idle"

MatrixInit ==
    /\ mat_data \in {Items(n) : n \in 0..MaxItems}
    /\ mat_rows \in 0..MaxItems
    /\ matrix = NoMatrix
    /\ mat_got = NoItem
    /\ grid_layout = NoGrid
    /\ matrix_pc = "start"

\* Matrix::with_rows(data, row_count): the remainder by a zero row_count and the
\* failed assert! both panic
WithRows ==
    /\ matrix_pc = "start"
    /\ IF mat_rows = 0 \/ Len(mat_data) % mat_rows # 0
       THEN matrix_pc' = "panic" /\ UNCHANGED matrix
       ELSE /\ matrix' = [shape |-> <<Len(mat_data) \div mat_rows, mat_rows>>,
                          data |-> mat_data]
            /\ matrix_pc' = "built"
    /\ UNCHANGED <<mat_data, mat_rows, mat_got, grid_layout>>

\* let index = y * self.shape.1 + x  (shape.1 is the row_count)
get_index(m, x, y) == y * m.shape[2] + x

\* Matrix::get(x, y): the assert! on the shape and the slice index can panic
Get(x, y) ==
    /\ matrix_pc = "built"
    /\ IF ~(x < matrix.shape[1] /\ y < matrix.shape[2])
          \/ get_index(matrix, x, y) >= Len(matrix.data)
       THEN matrix_pc' = "panic" /\ mat_got' = [x |-> x, y |-> y, item |-> ""]
       ELSE /\ mat_got' = [x |-> x, y |-> y,
                       item |-> matrix.data[get_index(matrix, x, y) + 1]]
            /\ UNCHANGED matrix_pc
    /\ UNCHANGED <<mat_data, mat_rows, matrix, grid_layout>>

\* view: the cell of an item
view(it) == Text(<<it>>)

\* the loop of Layout::grid over items.data(), from the k-th item on
RECURSIVE grid_rows(_, _, _, _, _, _)
grid_rows(m, gap, k, row, col_counter, rows) ==
    IF k > Len(m.data) THEN rows
    ELSE LET cell == center(view(m.data[k]))
         IN  IF col_counter + 1 = m.shape[1]
             THEN grid_rows(m, gap, k + 1, <<>>, 0,
                      Append(rows, HorizontalStack("Center", gap, Append(row, cell))))
             ELSE grid_rows(m, gap, k + 1, Append(row, cell), col_counter + 1, rows)

\* Layout::grid(items, spacing, view)
grid(m, gap) == VerticalStack("Center", gap, grid_rows(m, gap, 1, <<>>, 0, <<>>))

Grid ==
    /\ matrix_pc = "built"
    /\ grid_layout = NoGrid
    /\ grid_layout' = grid(matrix, 0)
    /\ UNCHANGED <<mat_data, mat_rows, matrix, mat_got, matrix_pc>>

----------------------------------------------------------------------------
(* SizedLayout::resolve_draw_commands (src/src/rendering/mod.rs) on trees   *)
(* of Text, Width, Height, alignment, padding, Background and Border nodes. *)

DrawText(rect, content) == [command |-> "Text", rect |-> rect, content |-> content]
DrawRectangle(rect, c)  == [command |-> "Rect", rect |-> rect, content |-> c]

Activation(layout, bounds, stage) ==
    [layout |-> layout, bounds |-> bounds, stage |-> stage]

\* the arms that recurse with node.resolve_draw_commands, on the child
ChildArms == {"Width", "Height"}

\* the node an arm calls resolve_draw_commands on: the child in the Width and
\* Height arms, self in the alignment, padding, Background and Border arms
callee(layout) ==
    IF layout.node.kind \in ChildArms THEN layout.node.child ELSE layout

\* the commands of the edges of a Border, pushed after the recursive call
\* returns (the order of `for edge in &edges` is the HashSet's)
RECURSIVE edge_commands(_, _, _)
edge_commands(outer_bounds, node, edges) ==
    IF edges = {} THEN <<>>
    ELSE LET edge == CHOOSE e \in edges : TRUE
         IN  <<DrawRectangle(edge_strip(outer_bounds, node.n, edge), node.c)>>
             \o edge_commands(outer_bounds, node, edges \ {edge})

DrawLayouts ==
    Leaves \cup Depth1 \cup {Width(n, Height(n, l)) : n \in Amounts, l \in Leaves}

DrawBounds == {Rect(0, 0, MaxWidth, MaxHeight), Rect(0, 0, 1, 1)}

DrawIdle ==
    /\ draw_root = NoLayout
    /\ draw_stack = <<>>
    /\ commands = <<>>
    /\ draw_pc = "idle"

\* a call of resolve_draw_commands on a resolved tree
DrawInit ==
    /\ \E l \in DrawLayouts, b \in DrawBounds :
          /\ draw_root = resolve_size(l, b)
          /\ draw_stack = <<Activation(draw_root, fit_into(draw_root.sizing, b), "enter")>>
    /\ ~draw_root.panic
    /\ commands = <<>>
    /\ draw_pc = "run"

\* the innermost activation runs its arm up to its recursive call, or to its end
DrawEnter ==
    /\ draw_pc = "run"
    /\ draw_stack # <<>>
    /\ LET top == draw_stack[Len(draw_stack)]
           layout == top.layout
           node == layout.node
           below == SubSeq(draw_stack, 1, Len(draw_stack) - 1)
       IN  /\ top.stage = "enter"
           /\ IF node.kind = "Text"
              THEN /\ commands' = Append(commands, DrawText(top.bounds, node.text))
                   /\ draw_stack' = below
                   /\ draw_pc' = IF below = <<>> THEN "done" ELSE "run"
              ELSE LET frame == child_frame(layout, top.bounds)
                   IN  IF frame.panic
                       THEN draw_pc' = "panic" /\ UNCHANGED <<draw_stack, commands>>
                       ELSE IF Len(draw_stack) >= MaxCallDepth
                       THEN draw_pc' = "overflow" /\ UNCHANGED <<draw_stack, commands>>
                       ELSE /\ commands' =
                                 IF node.kind = "Background"
                                 THEN Append(commands, DrawRectangle(top.bounds, node.c))
                                 ELSE commands
                            /\ draw_stack' =
                                 Append(Append(below, [top EXCEPT !.stage = "called"]),
                                        Activation(callee(layout), frame.rect, "enter"))
                            /\ UNCHANGED draw_pc
    /\ UNCHANGED draw_root

\* the recursive call of the innermost activation has returned: the arm runs to
\* its end
DrawReturn ==
    /\ draw_pc = "run"
    /\ draw_stack # <<>>
    /\ LET top == draw_stack[Len(draw_stack)]
           below == SubSeq(draw_stack, 1, Len(draw_stack) - 1)
       IN  /\ top.stage = "called"
           /\ commands' =
                 IF top.layout.node.kind = "Border"
                 THEN commands \o edge_commands(top.bounds, top.layout.node,
                                                top.layout.node.edges)
                 ELSE commands
           /\ draw_stack' = below
           /\ draw_pc' = IF below = <<>> THEN "done" ELSE "run"
    /\ UNCHANGED draw_root

----------------------------------------------------------------------------
(* The stack arms of Canvas::render: the placement of the children, one    *)
(* child of the raw_bounds loop per step, then the final_bounds map.       *)

\* Rect::max_x and Rect::max_y
max_x(rect) == rect.x + as_i64(rect.width)
max_y(rect) == rect.y + as_i64(rect.height)

\* the children of the placed stacks: Static on the primary axis after the
\* distribution loop (both axes Static serve both kinds of stack)
PlacedChildren ==
    { ItemSizing(Static(0), Static(0)), ItemSizing(Static(1), Static(2)),
      ItemSizing(Static(2), Static(1)), ItemSizing(Static(3), Static(3)) }

PlaceBounds == {Rect(0, 0, 4, 4), Rect(2, 1, 1, 2), Rect(1, 3, 0, 0)}

Alignments(ax) ==
    IF ax = "Vertical" THEN {"Left", "Center", "Right"} ELSE {"Top", "Center", "Bottom"}

PlaceIdle ==
    /\ place_axis = "Vertical"
    /\ place_alignment = "Left"
    /\ place_spacing = 0
    /\ place_nodes = <<>>
    /\ place_bounds = NoRect
    /\ raw_bounds = <<>>
    /\ last_bounds = NoRect
    /\ max_cross = 0
    /\ final_bounds = <<>>
    /\ place_pc = "idle"

\* let mut max_width = 0usize; let mut last_bounds = Rect::zero();
\* let nodes = new_nodes; let mut raw_bounds = vec![];
PlaceInit ==
    /\ place_axis \in {"Vertical", "Horizontal"}
    /\ place_alignment \in Alignments(place_axis)
    /\ place_spacing \in 0..MaxSpacing
    /\ place_nodes \in SeqsUpTo(PlacedChildren, MaxChildren)
    /\ place_bounds \in PlaceBounds
    /\ raw_bounds = <<>>
    /\ last_bounds = Rect(0, 0, 0, 0)
    /\ max_cross = 0
    /\ final_bounds = <<>>
    /\ place_pc = "place"

\* the rectangle pushed for a child of the given size after the previous one
node_bounds(ax, last, size, spacing_offset) ==
    IF ax = "Vertical"
    THEN Rect(0, max_y(last) + spacing_offset, size.width, size.height)
    ELSE Rect(max_x(last) + spacing_offset, 0, size.width, size.height)

\* the rectangle pushed for a child with the spacing added before every child
node_bounds_leading_gap(ax, last, size, sp, first) ==
    node_bounds(ax, last, size, as_i64(sp))

\* the rectangle pushed for a child: spacing_offset is 0 for the first child
\* and spacing for every later one
next_bounds(ax, last, size, sp, first) ==
    node_bounds(ax, last, size, IF first THEN 0 ELSE as_i64(sp))

\* one iteration of `for node in &nodes` of the raw_bounds loop
PlaceNode ==
    /\ place_pc = "place"
    /\ Len(raw_bounds) < Len(place_nodes)
    /\ LET node == place_nodes[Len(raw_bounds) + 1]
           size == fit_into(node, place_bounds)
           pushed == next_bounds(place_axis, last_bounds, size, place_spacing,
                                 raw_bounds = <<>>)
           across == IF place_axis = "Vertical" THEN pushed.width ELSE pushed.height
       IN  /\ last_bounds' = pushed
           /\ max_cross' = IF across > max_cross THEN across ELSE max_cross
           /\ raw_bounds' = Append(raw_bounds, pushed)
    /\ UNCHANGED <<place_axis, place_alignment, place_spacing, place_nodes,
                   place_bounds, final_bounds, place_pc>>

\* the cross-axis start of one rectangle under the stack's alignment
aligned_start(alignment, across, longest) ==
    CASE alignment \in {"Left", "Top"} -> [start |-> 0, panic |-> FALSE]
      [] alignment = "Center" ->
            [start |-> as_i64(wrapping_sub(longest \div 2, across \div 2)),
             panic |-> sub_panics(longest \div 2, across \div 2)]
      [] alignment \in {"Right", "Bottom"} ->
            [start |-> as_i64(wrapping_sub(longest, across)),
             panic |-> sub_panics(longest, across)]

\* the closure of raw_bounds.into_iter().map: align on the cross axis, then
\* move from 0 based bounds to the actual frame of the container
final_bound(ax, alignment, bound, longest, bounds) ==
    LET across == IF ax = "Vertical" THEN bound.width ELSE bound.height
        start == aligned_start(alignment, across, longest).start
        moved == IF ax = "Vertical" THEN [bound EXCEPT !.x = start]
                 ELSE [bound EXCEPT !.y = start]
    IN  [moved EXCEPT !.x = moved.x + bounds.x, !.y = moved.y + bounds.y]

\* let final_bounds: Vec<_> = raw_bounds.into_iter().map(..).collect(); the
\* children are then rendered into final_bounds[i], in order
AlignBounds ==
    /\ place_pc = "place"
    /\ Len(raw_bounds) = Len(place_nodes)
    /\ LET across(i) == IF place_axis = "Vertical" THEN raw_bounds[i].width
                        ELSE raw_bounds[i].height
       IN  IF \E i \in 1..Len(raw_bounds) :
                 aligned_start(place_alignment, across(i), max_cross).panic
           THEN place_pc' = "panic" /\ UNCHANGED final_bounds
           ELSE /\ final_bounds' =
                      [i \in 1..Len(raw_bounds) |->
                          final_bound(place_axis, place_alignment, raw_bounds[i],
                                      max_cross, place_bounds)]
                /\ place_pc' = "placed"
    /\ UNCHANGED <<place_axis, place_alignment, place_spacing, place_nodes,
                   place_bounds, raw_bounds, last_bounds, max_cross>>

----------------------------------------------------------------------------
(* AnimatedTextCanvas::run_with_state, src/src/animation/mod.rs.           *)
(* The update callback is the caller's code: it may add commands and may   *)
(* consume pending_events.  Terminal input is the environment's.           *)

MaxFrames == 3

Quit == "Quit"

\* crossterm::event::Event, as far as the loop tells events apart
Key(code, modifiers) == [kind |-> "Key", code |-> code, modifiers |-> modifiers]

ResizeEvent(columns, rows) == [kind |-> "Resize", columns |-> columns, rows |-> rows]

OtherEvent == [kind |-> "Other"]

KeyCodes == {"Esc", "c", "a"}

KeyModifierSets == {{}, {"CONTROL"}, {"SHIFT"}}

TerminalEvents ==
    {Key(code, m) : code \in KeyCodes, m \in KeyModifierSets}
        \cup {ResizeEvent(2, 1), OtherEvent}

\* enum AnimationEvent { KeyEvent(KeyCode, KeyModifiers), Resize(usize, usize) }
AnimationKeyEvent(code, modifiers) ==
    [kind |-> "KeyEvent", code |-> code, modifiers |-> modifiers]

AnimationResize(columns, rows) ==
    [kind |-> "Resize", columns |-> columns, rows |-> rows]

AnimIdle ==
    /\ pending_events = <<>>
    /\ context_commands = <<>>
    /\ frame_count = 0
    /\ events_read = <<>>
    /\ events_pushed = <<>>
    /\ iterations = 0
    /\ draws = 0
    /\ polls = 0
    /\ renders = 0
    /\ stop_cause = "none"
    /\ anim_pc = "idle"

\* let mut context = AnimationContext { frame_count: 0, pending_events: vec![],
\*                                      commands: vec![], .. };
AnimInit ==
    /\ pending_events = <<>>
    /\ context_commands = <<>>
    /\ frame_count = 0
    /\ events_read = <<>>
    /\ events_pushed = <<>>
    /\ iterations = 0
    /\ draws = 0
    /\ polls = 0
    /\ renders = 0
    /\ stop_cause = "none"
    /\ anim_pc = "update"

\* (self.update)(&mut context);
RunUpdate ==
    /\ anim_pc = "update"
    /\ iterations < MaxFrames
    /\ iterations' = iterations + 1
    /\ \E quit \in BOOLEAN :
          context_commands' =
              IF quit THEN Append(context_commands, Quit) ELSE context_commands
    /\ \E taken \in 0..Len(pending_events) :
          pending_events' = SubSeq(pending_events, taken + 1, Len(pending_events))
    /\ anim_pc' = "commands"
    /\ UNCHANGED <<frame_count, events_read, events_pushed, draws, polls, renders, stop_cause>>

should_stop_ignored(cmds) == FALSE

\* let mut should_stop = false;
\* for command in &context.commands { match command { Quit => should_stop = true } }
should_stop(cmds) == \E i \in 1..Len(cmds) : cmds[i] = Quit

\* if should_stop { break; }
CheckCommands ==
    /\ anim_pc = "commands"
    /\ IF should_stop(context_commands)
          THEN anim_pc' = "stopped" /\ stop_cause' = "quit"
          ELSE anim_pc' = "draw" /\ UNCHANGED stop_cause
    /\ UNCHANGED <<pending_events, context_commands, frame_count, events_read, events_pushed,
                   iterations, draws, polls, renders>>

\* context.delta_milis = ..; last_time = ..; canvas.draw_on_buffer();
DrawBuffer ==
    /\ anim_pc = "draw"
    /\ draws' = draws + 1
    /\ anim_pc' = "poll"
    /\ UNCHANGED <<pending_events, context_commands, frame_count, events_read, events_pushed,
                   iterations, polls, renders, stop_cause>>

\* Esc, or Char('c') with the Control modifier
stops_loop(event) ==
    /\ event.kind = "Key"
    /\ \/ event.code = "Esc"
       \/ event.code = "c" /\ "CONTROL" \in event.modifiers

\* the if / else if chain over the event read: what is pushed to pending_events
pushed_for(event) ==
    IF event.kind = "Key" /\ event.code = "Esc" THEN <<>>
    ELSE IF event.kind = "Key" /\ event.code = "c" THEN <<>>
    ELSE IF event.kind = "Resize"
        THEN <<AnimationResize(event.columns, event.rows)>>
    ELSE IF event.kind = "Key"
        THEN <<AnimationKeyEvent(event.code, event.modifiers)>>
    ELSE <<>>

\* if crossterm::event::poll(Duration::from_millis(1))? { match crossterm::event::read() {..} }
PollInput ==
    /\ anim_pc = "poll"
    /\ polls' = polls + 1
    /\ \/ \* poll returned Err: the ? operator returns from run_with_state
          /\ anim_pc' = "stopped" /\ stop_cause' = "poll_error"
          /\ UNCHANGED <<pending_events, events_read, events_pushed>>
       \/ \* poll returned Ok(false)
          /\ anim_pc' = "render"
          /\ UNCHANGED <<pending_events, events_read, events_pushed, stop_cause>>
       \/ \* read returned Err(err)
          /\ anim_pc' = "stopped" /\ stop_cause' = "read_error"
          /\ UNCHANGED <<pending_events, events_read, events_pushed>>
       \/ \* read returned Ok(event)
          \E event \in TerminalEvents :
             /\ events_read' = Append(events_read, event)
             /\ pending_events' = pending_events \o pushed_for(event)
             /\ events_pushed' = events_pushed \o pushed_for(event)
             /\ IF stops_loop(event)
                   THEN anim_pc' = "stopped" /\ stop_cause' = "key"
                   ELSE anim_pc' = "render" /\ UNCHANGED stop_cause
    /\ UNCHANGED <<context_commands, frame_count, iterations, draws, renders>>

\* canvas.clear_with(" "); let layout = (self.layout)(&mut context);
\* canvas.render_layout(&layout, &mut context); self.clear_buffer();
\* context.frame_count += 1;
RenderFrame ==
    /\ anim_pc = "render"
    /\ renders' = renders + 1
    /\ \/ \* render_layout returned
          /\ frame_count' = frame_count + 1
          /\ anim_pc' = "update"
          /\ UNCHANGED stop_cause
       \/ \* render_layout panicked
          /\ anim_pc' = "stopped" /\ stop_cause' = "panic"
          /\ UNCHANGED frame_count
    /\ UNCHANGED <<pending_events, context_commands, events_read, events_pushed,
                   iterations, draws, polls>>

----------------------------------------------------------------------------
(* Specifications.                                                         *)

vars ==
    <<overflow_checks, sizing_vars, stack_vars, layout_vars, text_vars, surface_vars,
      add_vars, matrix_vars, draw_vars,
      place_vars,
      anim_vars>>

\* the sizing algebra on drawn inputs
InitSizing ==
    overflow_checks \in BOOLEAN /\ SizingInit /\ StackIdle /\ LayoutIdle /\ TextIdle
    /\ SurfaceIdle /\ AddIdle /\ MatrixIdle /\ DrawIdle /\ PlaceIdle /\ AnimIdle

NextSizing ==
    \E b \in BoundSamples :
        FitInto(b) /\ UNCHANGED <<overflow_checks, stack_vars, layout_vars, text_vars,
                                 surface_vars, add_vars, matrix_vars, draw_vars,
                                 place_vars, anim_vars>>

SpecSizing == InitSizing /\ [][NextSizing]_vars

\* one stack positioned in drawn bounds
InitStack ==
    overflow_checks \in BOOLEAN /\ SizingIdle /\ StackInit /\ LayoutIdle /\ TextIdle
    /\ SurfaceIdle /\ AddIdle /\ MatrixIdle /\ DrawIdle /\ PlaceIdle /\ AnimIdle

StackFrame ==
    UNCHANGED <<overflow_checks, sizing_vars, layout_vars, text_vars,
                surface_vars, add_vars, matrix_vars, draw_vars, place_vars, anim_vars>>

NextStack ==
    \/ CountSizes /\ StackFrame
    \/ ComputeBudget /\ StackFrame
    \/ Distribute /\ StackFrame
    \/ FinishDistribution /\ StackFrame

SpecStack == InitStack /\ [][NextStack]_vars

\* one render_layout call on a drawn layout and surface
InitLayout ==
    overflow_checks \in BOOLEAN /\ SizingIdle /\ StackIdle /\ LayoutInit /\ TextIdle
    /\ SurfaceIdle /\ AddIdle /\ MatrixIdle /\ DrawIdle /\ PlaceIdle /\ AnimIdle

LayoutFrame ==
    UNCHANGED <<overflow_checks, sizing_vars, stack_vars, text_vars,
                surface_vars, add_vars, matrix_vars, draw_vars, place_vars, anim_vars>>

NextLayout ==
    \/ ResolveSize /\ LayoutFrame
    \/ Render /\ LayoutFrame

SpecLayout == InitLayout /\ [][NextLayout]_vars

\* one resolve_size call on a stack or a callback node
InitResolve ==
    overflow_checks \in BOOLEAN /\ SizingIdle /\ StackIdle /\ ResolveInit /\ TextIdle
    /\ SurfaceIdle /\ AddIdle /\ MatrixIdle /\ DrawIdle /\ PlaceIdle /\ AnimIdle

NextResolve == ResolveSize /\ LayoutFrame

SpecResolve == InitResolve /\ [][NextResolve]_vars

\* one Text leaf drawn over a surface that already holds something
InitText ==
    overflow_checks \in BOOLEAN /\ SizingIdle /\ StackIdle /\ LayoutIdle /\ TextInit
    /\ SurfaceIdle /\ AddIdle /\ MatrixIdle /\ DrawIdle /\ PlaceIdle /\ AnimIdle

TextFrame ==
    UNCHANGED <<overflow_checks, sizing_vars, stack_vars, layout_vars,
                surface_vars, add_vars, matrix_vars, draw_vars, place_vars, anim_vars>>

NextText ==
    \/ DrawGrapheme /\ TextFrame
    \/ FinishText /\ TextFrame

SpecText == InitText /\ [][NextText]_vars

\* one surface under a sequence of operations
InitSurface ==
    overflow_checks \in BOOLEAN /\ SizingIdle /\ StackIdle /\ LayoutIdle /\ TextIdle
    /\ SurfaceInit /\ AddIdle /\ MatrixIdle /\ DrawIdle /\ PlaceIdle /\ AnimIdle

SurfaceFrame ==
    UNCHANGED <<overflow_checks, sizing_vars, stack_vars, layout_vars, text_vars,
                add_vars, matrix_vars, draw_vars, place_vars, anim_vars>>

NextSurface ==
    \/ \E g \in {"a", "b"}, x \in Positions, y \in Positions :
          Write(g, x, y) /\ SurfaceFrame
    \/ \E x \in Offsets, y \in Offsets, w \in 0..MaxRect, h \in 0..MaxRect :
          DrawRect(Rect(x, y, w, h), "r") /\ SurfaceFrame
    \/ ClearWith(".") /\ SurfaceFrame
    \/ \E ow \in 1..MaxRect, oh \in 1..MaxRect, x \in Offsets, y \in Offsets,
          w \in 1..MaxRect, h \in 1..MaxRect :
          PasteCanvas(SubSurface(ow, oh), Rect(x, y, w, h)) /\ SurfaceFrame

SpecSurface == InitSurface /\ [][NextSurface]_vars

\* one clamped_add call
InitAdd ==
    overflow_checks \in BOOLEAN /\ SizingIdle /\ StackIdle /\ LayoutIdle /\ TextIdle
    /\ SurfaceIdle /\ AddInit /\ MatrixIdle /\ DrawIdle /\ PlaceIdle /\ AnimIdle

AddFrame ==
    UNCHANGED <<overflow_checks, sizing_vars, stack_vars, layout_vars, text_vars,
                surface_vars, matrix_vars, draw_vars, place_vars, anim_vars>>

NextAdd == ClampedAdd /\ AddFrame

SpecAdd == InitAdd /\ [][NextAdd]_vars

\* one Matrix, read with get and laid out with grid
InitMatrix ==
    overflow_checks \in BOOLEAN /\ SizingIdle /\ StackIdle /\ LayoutIdle /\ TextIdle
    /\ SurfaceIdle /\ AddIdle /\ MatrixInit /\ DrawIdle /\ PlaceIdle /\ AnimIdle

MatrixFrame ==
    UNCHANGED <<overflow_checks, sizing_vars, stack_vars, layout_vars, text_vars,
                surface_vars, add_vars, draw_vars, place_vars, anim_vars>>

NextMatrix ==
    \/ WithRows /\ MatrixFrame
    \/ \E x \in 0..MaxItems, y \in 0..MaxItems : Get(x, y) /\ MatrixFrame
    \/ Grid /\ MatrixFrame

SpecMatrix == InitMatrix /\ [][NextMatrix]_vars

\* the draw commands of one resolved tree
InitDraw ==
    overflow_checks \in BOOLEAN /\ SizingIdle /\ StackIdle /\ LayoutIdle /\ TextIdle
    /\ SurfaceIdle /\ AddIdle /\ MatrixIdle /\ DrawInit /\ PlaceIdle /\ AnimIdle

DrawFrame ==
    UNCHANGED <<overflow_checks, sizing_vars, stack_vars, layout_vars, text_vars,
                surface_vars, add_vars, matrix_vars, place_vars, anim_vars>>

NextDraw ==
    \/ DrawEnter /\ DrawFrame
    \/ DrawReturn /\ DrawFrame

SpecDraw == InitDraw /\ [][NextDraw]_vars

\* the placement of the children of one stack
InitPlace ==
    overflow_checks \in BOOLEAN /\ SizingIdle /\ StackIdle /\ LayoutIdle /\ TextIdle
    /\ SurfaceIdle /\ AddIdle /\ MatrixIdle /\ DrawIdle /\ PlaceInit /\ AnimIdle

PlaceFrame ==
    UNCHANGED <<overflow_checks, sizing_vars, stack_vars, layout_vars, text_vars,
                surface_vars, add_vars, matrix_vars, draw_vars, anim_vars>>

NextPlace ==
    \/ PlaceNode /\ PlaceFrame
    \/ AlignBounds /\ PlaceFrame

SpecPlace == InitPlace /\ [][NextPlace]_vars

\* the animation loop
InitAnimation ==
    overflow_checks \in BOOLEAN /\ SizingIdle /\ StackIdle /\ LayoutIdle /\ TextIdle
    /\ SurfaceIdle /\ AddIdle /\ MatrixIdle /\ DrawIdle /\ PlaceIdle /\ AnimInit

AnimFrame ==
    UNCHANGED <<overflow_checks, sizing_vars, stack_vars, layout_vars, text_vars,
                surface_vars, add_vars, matrix_vars, draw_vars, place_vars>>

NextAnimation ==
    \/ RunUpdate /\ AnimFrame
    \/ CheckCommands /\ AnimFrame
    \/ DrawBuffer /\ AnimFrame
    \/ PollInput /\ AnimFrame
    \/ RenderFrame /\ AnimFrame

SpecAnimation == InitAnimation /\ [][NextAnimation]_vars

----------------------------------------------------------------------------
(* Properties of the stack's greedy distribution (SpecStack).              *)

Sizes(ns) == [i \in 1..Len(ns) |-> ns[i].sz]

AllGreedyZero(ns) == \A i \in 1..Len(ns) : ns[i] = Greedy(0)

Abs(n) == IF n < 0 THEN -n ELSE n

MaxOf(S) == CHOOSE m \in S : \A e \in S : e <= m

\* C1: stack remainder law.  When a stack hands a budget B to k >= 1 Greedy
\* children of minimum 0 (no Static child, spacing 0), the k assigned sizes
\* differ pairwise by at most 1 and sum to exactly B.
C1_RemainderLaw ==
    (stack_pc = "done" /\ Len(nodes) >= 1 /\ AllGreedyZero(nodes) /\ spacing = 0)
    => /\ SumSeq(Sizes(new_nodes)) = extent
       /\ \A i, j \in 1..Len(new_nodes) :
              Abs(new_nodes[i].sz - new_nodes[j].sz) <= 1

\* C2: with k Greedy children and elastic budget B, every Greedy child but the
\* last receives the floor share B div k, and the last one, and only it,
\* receives B div k + B mod k (before the clamp to its minimum).
C2_LastCollectsRemainder ==
    (stack_pc = "done" /\ GreedyIndices(nodes) # {})
    => LET G    == GreedyIndices(nodes)
           k    == Cardinality(G)
           last == MaxOf(G)
       IN  \A i \in G :
               shares[i] = IF i = last THEN (budget \div k) + (budget % k)
                                       ELSE budget \div k

OneGreedyZero(ns) ==
    /\ Cardinality(GreedyIndices(ns)) = 1
    /\ \A i \in GreedyIndices(ns) : ns[i] = Greedy(0)

\* C3: a VerticalStack of n children with spacing g in bounds of height H,
\* whose children are Static heights s_i and exactly one Greedy child of
\* minimum 0, with sum(s_i) + g*(n-1) <= H, converts the Greedy child to
\* Static(H - sum(s_i) - g*(n-1)).
C3_SingleGreedyTakesTheRest ==
    LET total == SumSeq(StaticSizes(nodes)) + spacing * (Len(nodes) - 1)
    IN  (stack_pc = "done" /\ axis = "Vertical" /\ OneGreedyZero(nodes)
            /\ total <= extent)
        => \A i \in GreedyIndices(nodes) : new_nodes[i] = Static(extent - total)

\* the scenario [Static 2, Greedy 0, Static 2], spacing 1, height 10: middle child 4
C3_Witness ==
    /\ stack_pc = "done" /\ axis = "Vertical"
    /\ nodes = <<Static(2), Greedy(0), Static(2)>>
    /\ spacing = 1 /\ extent = 10
    /\ new_nodes[2] = Static(4)

\* C8: every Greedy(min) child is converted to Static(max(share, min)), so no
\* elastic child is assigned less than its minimum; every Static child keeps
\* its size.  (The sum of the assigned sizes may then exceed the bounds, and
\* the positioner goes on: C8_Witness.)
C8_ClampedToMinimum ==
    \A i \in 1..Len(new_nodes) :
        /\ new_nodes[i].variant = "Static"
        /\ nodes[i].variant = "Static" => new_nodes[i].sz = nodes[i].sz
        /\ nodes[i].variant = "Greedy" =>
               /\ new_nodes[i].sz >= nodes[i].sz
               /\ new_nodes[i].sz = Max(shares[i], nodes[i].sz)

\* a finished distribution whose sizes overflow the bounds because a minimum won
C8_Witness ==
    /\ stack_pc = "done"
    /\ \E i \in GreedyIndices(nodes) :
           shares[i] < nodes[i].sz /\ new_nodes[i].sz = nodes[i].sz
    /\ \E i \in 1..Len(nodes) : nodes[i].variant = "Static" /\ nodes[i].sz > 0
    /\ SumSeq(Sizes(new_nodes)) + spacing_sizing(spacing, nodes) > extent

----------------------------------------------------------------------------
(* Properties of the sizing algebra (SpecSizing).                          *)

AxisFits(s, bound, got) ==
    /\ s.variant = "Static" => got = s.sz
    /\ s.variant = "Greedy" => got >= bound /\ got >= s.sz /\ got \in {bound, s.sz}

\* C7: fit_into returns, on each axis independently, exactly n for Static(n)
\* and max(bound, m) for Greedy(m), and keeps the x and y of the bounds.
C7_FitInto ==
    fitted # NoRect
    => /\ fitted.x = fit_bounds.x
       /\ fitted.y = fit_bounds.y
       /\ AxisFits(item.horizontal, fit_bounds.width, fitted.width)
       /\ AxisFits(item.vertical, fit_bounds.height, fitted.height)

\* a Greedy axis below its bound, a Static axis above its bound, a moved origin
C7_Witness ==
    /\ fitted # NoRect
    /\ item.horizontal.variant = "Greedy" /\ item.horizontal.sz < fit_bounds.width
    /\ item.vertical.variant = "Static" /\ item.vertical.sz > fit_bounds.height
    /\ fit_bounds.x # 0 /\ fit_bounds.y # 0
    /\ fitted.width = fit_bounds.width /\ fitted.height = item.vertical.sz

\* the stack has no Greedy child on its primary axis and its budget is known
NoGreedyChild ==
    /\ stack_pc \in {"distribute", "done"}
    /\ GreedyIndices(nodes) = {}

\* C14: a stack with no Greedy child on its primary axis (a stack with no
\* children included) is positioned without a division by zero: the per-child
\* elastic share is taken as 0 and every child keeps its Static size.
C14_NoGreedyChild ==
    NoGreedyChild =>
        /\ greedy_count = 0
        /\ greedy_size = 0
        /\ \A i \in 1..Len(new_nodes) : new_nodes[i] = nodes[i]
        /\ stack_pc = "done" => new_nodes = nodes

\* two Static children positioned with budget to spare
C14_Witness ==
    /\ NoGreedyChild
    /\ stack_pc = "done"
    /\ Len(nodes) = 2
    /\ budget > 0

----------------------------------------------------------------------------
(* Properties of render_layout (SpecLayout).                               *)

PaddingKinds == {"TopPadding", "RightPadding", "BottomPadding", "LeftPadding"}

VerticalKinds == {"TopPadding", "BottomPadding"}

NearKinds == {"TopPadding", "LeftPadding"}

\* a sizing, a rectangle's extent and a rectangle's origin on the padded axis
AxisSizing(sizing, kind) ==
    IF kind \in VerticalKinds THEN sizing.vertical ELSE sizing.horizontal

AxisExtent(rect, kind) == IF kind \in VerticalKinds THEN rect.height ELSE rect.width

AxisOrigin(rect, kind) == IF kind \in VerticalKinds THEN rect.y ELSE rect.x

\* the root of the drawn tree is a padding node whose resolved child is
\* Static(c) on the padded axis with c + n <= b
PaddingHasRoom ==
    /\ layout_pc = "rendered"
    /\ root_layout.kind \in PaddingKinds
    /\ AxisSizing(sized.node.child.sizing, root_layout.kind).variant = "Static"
    /\ AxisSizing(sized.node.child.sizing, root_layout.kind).sz + root_layout.n
          <= AxisExtent(self_bounds, root_layout.kind)

\* C4: a padding node of n units around a child that is Static(c) on the padded
\* axis, resolved and rendered against bounds b with c + n <= b, hands its child a
\* rectangle of extent exactly c on that axis lying n units away from the padded
\* edge: offset by n for Top/Left, ending n before the far edge for Bottom/Right.
C4_PaddingRoomAvailable ==
    PaddingHasRoom =>
        LET kind == root_layout.kind
            n == root_layout.n
            c == AxisSizing(sized.node.child.sizing, kind).sz
        IN  /\ Len(calls) >= 2
            /\ calls[1].kind = kind
            /\ calls[2].sizing = sized.node.child.sizing
            /\ AxisExtent(calls[2].bounds, kind) = c
            /\ IF kind \in NearKinds
               THEN AxisOrigin(calls[2].bounds, kind)
                        = AxisOrigin(calls[1].bounds, kind) + n
               ELSE AxisOrigin(calls[2].bounds, kind) + c + n
                        = AxisOrigin(calls[1].bounds, kind)
                            + AxisExtent(calls[1].bounds, kind)

\* a Text of one row under a TopPadding with room drawn n rows down
C4_Witness ==
    /\ PaddingHasRoom
    /\ root_layout.kind = "TopPadding"
    /\ root_layout.child.kind = "Text"
    /\ calls[2].bounds.y = root_layout.n
    /\ calls[2].bounds.height > 0

\* the first resolution of the child of a root padding node, against the bounds
\* of the padding node itself
first_resolved == resolve_size(root_layout.child, self_bounds)

\* the root of the resolved tree is a padding node whose child's first
\* resolution has minimum size c on the padded axis with c + n > b
PaddingLacksRoom ==
    /\ layout_pc \in {"resolved", "rendered"}
    /\ root_layout.kind \in PaddingKinds
    /\ ~first_resolved.panic
    /\ min_content_size(AxisSizing(first_resolved.sizing, root_layout.kind))
          + root_layout.n > AxisExtent(self_bounds, root_layout.kind)

\* C5: a padding node of n units whose child first resolves to a minimum c with
\* c + n > b never overflows its container: the re-resolved child's size on the
\* padded axis is at most max(b - n, 0) and the padding node's resolved size is
\* at most max(b, n).
C5_PaddingRoomInsufficient ==
    PaddingLacksRoom =>
        LET kind == root_layout.kind
            n == root_layout.n
            b == AxisExtent(self_bounds, kind)
        IN  /\ min_content_size(AxisSizing(sized.node.child.sizing, kind))
                  <= Max(b - n, 0)
            /\ min_content_size(AxisSizing(sized.sizing, kind)) <= Max(b, n)

\* C6: Text("Hi").center().padding(2).background('.').border(1, '#', all edges)
\* drawn into a surface 10 wide and 5 high leaves '#' in every cell of row 0,
\* row 4, column 0 and column 9, "Hi" on adjacent cells in the centre of the
\* interior, and '.' in every other interior cell.
C6_HiScenario ==
    (root_layout = HiLayout /\ layout_pc \in {"rendered", "panic"}) =>
        /\ layout_pc = "rendered"
        /\ \A x \in 0..9 : cell_at(surface, x, 0) = "#" /\ cell_at(surface, x, 4) = "#"
        /\ \A y \in 0..4 : cell_at(surface, 0, y) = "#" /\ cell_at(surface, 9, y) = "#"
        /\ cell_at(surface, 4, 2) = "H"
        /\ cell_at(surface, 5, 2) = "i"
        /\ \A x \in 1..8 : \A y \in 1..3 :
              <<x, y>> \notin {<<4, 2>>, <<5, 2>>} => cell_at(surface, x, y) = "."

\* the parameters of a node: everything but its kind and its children
Parameters(node) ==
    [f \in (DOMAIN node) \ {"kind", "child", "children", "returns"} |-> node[f]]

\* whether the sized tree s has, node by node, the kind, the parameters and the
\* children of the layout tree l, a WithContext standing for the tree it returns
RECURSIVE Isomorphic(_, _)
Isomorphic(l, s) ==
    IF l.kind = "WithContext" THEN Isomorphic(l.returns, s)
    ELSE /\ s.node.kind = l.kind
         /\ Parameters(s.node) = Parameters(l)
         /\ "child" \in DOMAIN l =>
               "child" \in DOMAIN s.node /\ Isomorphic(l.child, s.node.child)
         /\ "children" \in DOMAIN l =>
               /\ "children" \in DOMAIN s.node
               /\ Len(s.node.children) = Len(l.children)
               /\ \A i \in 1..Len(l.children) :
                     Isomorphic(l.children[i], s.node.children[i])

\* C15: resolve_size is structure-preserving: every input node of kind K yields
\* a sized node of the same kind K with the same parameters and the same
\* children in the same order; only WithContext nodes are replaced by the
\* resolution of the tree their callback returns.
C15_StructurePreserving ==
    layout_pc \in {"resolved", "rendered"} => Isomorphic(root_layout, sized)

\* the root of the drawn tree is an HLeftAlign around a child of Static width,
\* rendered into bounds wider than the child
LeftAlignedWithRoom ==
    /\ layout_pc = "rendered"
    /\ root_layout.kind = "HLeftAlign"
    /\ sized.node.child.sizing.horizontal.variant = "Static"
    /\ calls[1].bounds.width > sized.node.child.sizing.horizontal.sz

\* C16: a child wrapped with align_left and rendered into bounds wider than the
\* child keeps its own width and is placed at the left edge of the bounds: the
\* child's rectangle has the x of the HLeftAlign node's bounds.
C16_LeftAlignedAtLeftEdge ==
    LeftAlignedWithRoom =>
        /\ calls[2].bounds.width = sized.node.child.sizing.horizontal.sz
        /\ calls[2].bounds.x = calls[1].bounds.x

----------------------------------------------------------------------------
(* Properties of the Text arm (SpecText).                                  *)

OnSurface(canvas, p) == p[1] < canvas.size.width /\ p[2] < canvas.size.height

\* C10: a space grapheme advances the cursor and writes nothing: whatever the
\* text and whatever the surface held before, the cell at the position of each
\* space still holds the value it had before the text was drawn.
C10_TransparencyLaw ==
    \A p \in spaces :
        OnSurface(text_canvas, p) =>
            cell_at(text_canvas, p[1], p[2]) = cell_at(prior, p[1], p[2])

\* "a a" drawn over a filled row: the letters land left and right of a cell that
\* keeps the fill
C10_Witness ==
    /\ text_pc = "done"
    /\ <<1, 0>> \in spaces
    /\ cell_at(text_canvas, 0, 0) = "a"
    /\ cell_at(text_canvas, 1, 0) = "."
    /\ cell_at(text_canvas, 2, 0) = "a"

----------------------------------------------------------------------------
(* Properties of the surface operations (SpecSurface).                     *)

\* the last operation pasted a sub-surface into bounds of another size
SizeMismatch ==
    /\ last_op.kind = "paste_canvas"
    /\ \/ last_op.other.size.width # last_op.bounds.width
       \/ last_op.other.size.height # last_op.bounds.height

----------------------------------------------------------------------------
(* Properties of resolve_size on stacks (SpecResolve).                     *)

StackKinds == {"VerticalStack", "HorizontalStack"}

\* the bounds with the primary axis of the stack at zero
ZeroPrimary(rect, kind) ==
    IF kind = "VerticalStack" THEN [rect EXCEPT !.height = 0]
    ELSE [rect EXCEPT !.width = 0]

\* resolve_size has run on a stack whose total spacing exceeds the bounds on
\* its primary axis
SpacingExceedsBounds ==
    /\ layout_pc \in {"resolved", "panic"}
    /\ root_layout.kind \in StackKinds
    /\ root_layout.spacing * (Len(root_layout.children) - 1)
          > (IF root_layout.kind = "VerticalStack" THEN self_bounds.height
             ELSE self_bounds.width)

\* C12: the subtraction that derives the reduced bounds of a stack saturates at
\* zero and never panics or wraps: resolving a stack whose total spacing
\* spacing * (children - 1) exceeds the bounds on the primary axis completes,
\* with the children resolved against a primary-axis bound of 0.
C12_SaturatingSubtraction ==
    SpacingExceedsBounds =>
        /\ layout_pc = "resolved"
        /\ sized.node.children
              = resolve_children(root_layout.children,
                                 ZeroPrimary(self_bounds, root_layout.kind))

----------------------------------------------------------------------------
(* Properties of Sizing::clamped_add (SpecAdd).                            *)

\* C13: clamped_add(n) saturates: the payload after the call is
\* min(sz + n, MAX) and the variant is unchanged.
C13_ClampedAddSaturates ==
    [][ClampedAdd => /\ add_self'.sz = Min(add_self.sz + addend, USIZE_MAX)
                     /\ add_self'.variant = add_self.variant]_vars

----------------------------------------------------------------------------
(* Properties of Matrix and grid (SpecMatrix).                             *)

\* C18: Matrix is row-major: for a Matrix built by with_rows(data, r) with
\* c = len(data) / r columns, get(x, y) with x < c and y < r returns
\* data[y * c + x], the item that grid places in column x of row y.
C18_MatrixRowMajor ==
    (matrix_pc \in {"built", "panic"} /\ mat_got # NoItem
        /\ mat_got.x < matrix.shape[1] /\ mat_got.y < matrix.shape[2]) =>
        /\ matrix_pc = "built"
        /\ mat_got.item = mat_data[mat_got.y * (Len(mat_data) \div mat_rows) + mat_got.x + 1]
        /\ grid_layout # NoGrid =>
              grid_layout.children[mat_got.y + 1].children[mat_got.x + 1]
                  = center(view(mat_got.item))

----------------------------------------------------------------------------
(* Properties of resolve_draw_commands (SpecDraw).                         *)

RECURSIVE TreeDepth(_)
TreeDepth(layout) ==
    IF "child" \in DOMAIN layout.node THEN 1 + TreeDepth(layout.node.child) ELSE 1

\* C19: draw-command generation terminates: every recursive call is made on a
\* direct child of the current node, so the recursion depth never exceeds the
\* depth of the tree and the call stack never runs out.
C19_DrawCommandsTerminate ==
    /\ Len(draw_stack) <= TreeDepth(draw_root)
    /\ \A i \in 2..Len(draw_stack) :
          draw_stack[i].layout = draw_stack[i - 1].layout.node.child
    /\ draw_pc # "overflow"

----------------------------------------------------------------------------
(* The calls node.resolve_size of the padding and Border arms (SpecLayout). *)

\* the bounds of every node.resolve_size call the padding or Border arm of
\* resolve_size makes for its direct child, in the order of the calls
child_resolutions(l, bounds) ==
    CASE l.kind \in {"TopPadding", "BottomPadding"} ->
            LET resolved == resolve_size(l.child, bounds)
                frame == with_vertical(resolved.sizing,
                                       clamped_add(resolved.sizing.vertical, l.n))
            IN  <<bounds>> \o
                (IF ~resolved.panic /\ min_content_size(frame.vertical) > bounds.height
                 THEN <<[bounds EXCEPT !.height = saturating_sub(bounds.height, l.n)]>>
                 ELSE <<>>)
      [] l.kind \in {"LeftPadding", "RightPadding"} ->
            LET resolved == resolve_size(l.child, bounds)
                frame == with_horizontal(resolved.sizing,
                                         clamped_add(resolved.sizing.horizontal, l.n))
            IN  <<bounds>> \o
                (IF ~resolved.panic /\ min_content_size(frame.horizontal) > bounds.width
                 THEN <<[bounds EXCEPT !.width = saturating_sub(bounds.width, l.n)]>>
                 ELSE <<>>)
      [] l.kind = "Border" ->
            LET outer_bounds == bounds
                first  == resolve_size(l.child, outer_bounds)
                frame1 == with_vertical(first.sizing,
                              border_added(first.sizing.vertical, l.n, l.edges,
                                           "Top", "Bottom"))
                vshrunk == ~first.panic
                           /\ min_content_size(frame1.vertical) > outer_bounds.height
                lower  == [outer_bounds EXCEPT
                               !.height = saturating_sub(outer_bounds.height, l.n)]
                second == IF vshrunk THEN resolve_size(l.child, lower) ELSE first
                frame2 == IF vshrunk
                          THEN with_vertical(second.sizing,
                                   clamped_add(second.sizing.vertical, l.n))
                          ELSE frame1
                frame3 == with_horizontal(frame2,
                              border_added(frame2.horizontal, l.n, l.edges,
                                           "Left", "Right"))
                hshrunk == ~first.panic /\ ~second.panic
                           /\ min_content_size(frame3.horizontal) > outer_bounds.width
                narrower == [outer_bounds EXCEPT
                                 !.width = saturating_sub(outer_bounds.width, l.n)]
            IN  <<outer_bounds>> \o (IF vshrunk THEN <<lower>> ELSE <<>>)
                                 \o (IF hshrunk THEN <<narrower>> ELSE <<>>)

\* C20: during one resolve_size call a padding or Border node resolves its
\* direct child at most twice: once against the unmodified bounds and at most
\* once more against reduced bounds.
C20_AtMostOneReResolution ==
    (layout_pc # "start" /\ root_layout.kind \in PaddingKinds \cup {"Border"}) =>
        LET resolutions == child_resolutions(root_layout, self_bounds)
        IN  /\ Len(resolutions) <= 2
            /\ resolutions[1] = self_bounds

\* the same bound for the four padding nodes alone
C20_PaddingResolutions ==
    (layout_pc # "start" /\ root_layout.kind \in PaddingKinds) =>
        Len(child_resolutions(root_layout, self_bounds)) <= 2

----------------------------------------------------------------------------
(* The sizing of a resolved Border (SpecLayout).                            *)

\* the number of the two edges of one axis that are selected
EdgeCount(edges, first, second) ==
    (IF first \in edges THEN 1 ELSE 0) + (IF second \in edges THEN 1 ELSE 0)

\* C21: on each axis the resolved sizing of a Border of thickness n has the
\* variant of its finally resolved child and the child's payload plus n times
\* the number of selected edges of that axis, re-resolved or not.
C21_BorderReservesEveryEdge ==
    (layout_pc = "resolved" /\ root_layout.kind = "Border") =>
        LET content == sized.node.child.sizing
            n == root_layout.n
            edges == root_layout.edges
        IN  /\ sized.sizing.vertical.variant = content.vertical.variant
            /\ sized.sizing.vertical.sz
                  = content.vertical.sz + n * EdgeCount(edges, "Top", "Bottom")
            /\ sized.sizing.horizontal.variant = content.horizontal.variant
            /\ sized.sizing.horizontal.sz
                  = content.horizontal.sz + n * EdgeCount(edges, "Left", "Right")

----------------------------------------------------------------------------
(* The sizing of a resolved stack (SpecResolve).                            *)

\* the sizing of a resolved node on the primary (TRUE) or the cross axis of a
\* stack of the given kind
StackAxisSizing(sizing, kind, primary) ==
    IF (kind = "VerticalStack") = primary THEN sizing.vertical ELSE sizing.horizontal

\* a stack has been resolved
StackResolved == layout_pc = "resolved" /\ root_layout.kind \in StackKinds

\* C22: the primary-axis sizing of a resolved stack has payload
\* spacing * (children - 1) plus the sum of the children's minimum sizes and is
\* Greedy iff some child is Greedy on that axis; its cross-axis sizing has the
\* maximum of the children's minimum sizes as payload and is Greedy iff some
\* child is Greedy on the cross axis.
C22_StackSizing ==
    StackResolved =>
        LET kind == root_layout.kind
            children == sized.node.children
            along == [i \in 1..Len(children) |->
                         StackAxisSizing(children[i].sizing, kind, TRUE)]
            across == [i \in 1..Len(children) |->
                          StackAxisSizing(children[i].sizing, kind, FALSE)]
            primary == StackAxisSizing(sized.sizing, kind, TRUE)
            cross == StackAxisSizing(sized.sizing, kind, FALSE)
        IN  /\ primary.sz = root_layout.spacing * Max(Len(children) - 1, 0)
                            + SumSeq([i \in 1..Len(children) |->
                                         min_content_size(along[i])])
            /\ primary.variant = "Greedy"
                  <=> \E i \in 1..Len(children) : along[i].variant = "Greedy"
            /\ \A i \in 1..Len(children) : cross.sz >= min_content_size(across[i])
            /\ \/ children = <<>> /\ cross.sz = 0
               \/ \E i \in 1..Len(children) : cross.sz = min_content_size(across[i])
            /\ cross.variant = "Greedy"
                  <=> \E i \in 1..Len(children) : across[i].variant = "Greedy"

----------------------------------------------------------------------------
(* Properties of the placement of a stack's children (SpecPlace).           *)

\* where a rectangle starts and how far it extends on the stack's primary axis
PrimaryStart(rect) == IF place_axis = "Vertical" THEN rect.y ELSE rect.x
PrimarySize(rect) == IF place_axis = "Vertical" THEN rect.height ELSE rect.width

----------------------------------------------------------------------------
(* Properties of the Background and Border arms of render (SpecLayout).     *)

\* a cell value no layout of the model draws
Unwritten == "?"

\* whether the cell (x, y) of the surface lies in the rectangle
InRect(rect, x, y) ==
    /\ rect.x <= x /\ x < rect.x + rect.width
    /\ rect.y <= y /\ y < rect.y + rect.height

\* the rectangle render_layout hands to the root node
root_bounds == fit_into(sized.sizing, self_bounds)

\* the surface after the root's child alone is rendered into its frame, over
\* cells that all hold Unwritten: a cell differs from Unwritten iff the child
\* wrote it
ChildAlone ==
    render(sized.node.child, child_frame(sized, root_bounds).rect,
           [canvas |-> clear_with(surface, Unwritten), panic |-> FALSE,
            calls |-> <<>>]).canvas

\* C24: the fill of a Background node's bounds comes before every draw
\* operation of its child: after rendering, each cell of the bounds holds the
\* child's value where the child wrote and the background cell everywhere
\* else; the Background node's sizing equals its child's sizing.
C24_BackgroundUnderContent ==
    (layout_pc = "rendered" /\ root_layout.kind = "Background") =>
        /\ sized.sizing = sized.node.child.sizing
        /\ \A x \in 0..(surface.size.width - 1), y \in 0..(surface.size.height - 1) :
              InRect(root_bounds, x, y) =>
                 cell_at(surface, x, y)
                    = IF cell_at(ChildAlone, x, y) # Unwritten
                      THEN cell_at(ChildAlone, x, y)
                      ELSE root_layout.c

\* whether the cell (x, y) of the outer bounds lies within n of the given edge
InEdgeStrip(rect, n, edge, x, y) ==
    /\ InRect(rect, x, y)
    /\ CASE edge = "Top" -> y < rect.y + n
         [] edge = "Bottom" -> y >= rect.y + rect.height - n
         [] edge = "Left" -> x < rect.x + n
         [] edge = "Right" -> x >= rect.x + rect.width - n

\* C25: the content of a Border is drawn before its strips, one strip of the
\* thickness per selected edge along that edge of the outer bounds: after
\* rendering, every surface cell in a selected edge strip of the outer bounds
\* holds the border cell, whatever the content drew there.
C25_BorderOverContent ==
    (layout_pc = "rendered" /\ root_layout.kind = "Border") =>
        \A x \in 0..(surface.size.width - 1), y \in 0..(surface.size.height - 1) :
            (\E edge \in root_layout.edges :
                InEdgeStrip(root_bounds, root_layout.n, edge, x, y))
               => cell_at(surface, x, y) = root_layout.c

----------------------------------------------------------------------------
(* Properties of a Text drawn into its resolved size (SpecLayout).          *)

\* C26: a text resolved against bounds of width w >= 1 to Static(width,
\* height) and drawn into a rectangle of exactly that size stays inside it:
\* every grapheme that is written lands in a cell with column offset < width
\* and row offset < height from the rectangle's origin.
C26_TextInsideItsSize ==
    (layout_pc = "rendered" /\ root_layout.kind = "Text" /\ self_bounds.width >= 1) =>
        \A x \in 0..(surface.size.width - 1), y \in 0..(surface.size.height - 1) :
            cell_at(surface, x, y) # Blank => InRect(root_bounds, x, y)

----------------------------------------------------------------------------
(* The rectangles handed down by one render_layout pass (SpecLayout).       *)

\* render has run on the resolved tree (to its end or to a panic)
RenderRan == layout_pc \in {"rendered", "panic"} /\ sized # NoLayout /\ ~sized.panic

\* whether the unsigned subtraction of an alignment arm is reached with a
\* minuend below its subtrahend: center_pos - content / 2 in the centering
\* arms, bottom_most - content.height and right_most - content.width in the
\* far-edge arms
alignment_underflows(layout, bounds) ==
    LET kind == layout.node.kind
        vertical == kind \in {"VCenter", "VBottomAlign"}
        content_rect == fit_into(layout.node.child.sizing, bounds)
        origin == IF vertical THEN as_usize(bounds.y) ELSE as_usize(bounds.x)
        length == IF vertical THEN bounds.height ELSE bounds.width
        content_length == IF vertical THEN content_rect.height ELSE content_rect.width
    IN  CASE kind \in {"VCenter", "HCenter"} ->
                /\ ~add_panics(origin, length \div 2)
                /\ wrapping_add(origin, length \div 2) < content_length \div 2
          [] kind \in {"VBottomAlign", "HRightAlign"} ->
                /\ ~add_panics(origin, length)
                /\ wrapping_add(origin, length) < content_length
          [] OTHER -> FALSE

\* whether rendering the node into the bounds reaches such a subtraction, in
\* the node or below it
RECURSIVE Underflows(_, _)
Underflows(layout, bounds) ==
    IF layout.node.kind = "Text" THEN FALSE
    ELSE \/ alignment_underflows(layout, bounds)
         \/ /\ ~child_frame(layout, bounds).panic
            /\ Underflows(layout.node.child, child_frame(layout, bounds).rect)

\* C27: every node reached by render receives a rectangle with non-negative
\* origin whose width and height are at least the minimum content size of the
\* node's resolved sizing, so the unsigned subtractions of the centering and
\* the bottom/right alignment arms never underflow.
C27_FrameInvariant ==
    RenderRan =>
        /\ \A i \in 1..Len(calls) :
              /\ calls[i].bounds.x >= 0 /\ calls[i].bounds.y >= 0
              /\ calls[i].bounds.width >= min_content_size(calls[i].sizing.horizontal)
              /\ calls[i].bounds.height >= min_content_size(calls[i].sizing.vertical)
        /\ ~Underflows(sized, root_bounds)

----------------------------------------------------------------------------
(* The remaining budget in the greedy-distribution loop (SpecStack).        *)

\* the Greedy children the distribution loop has processed, and those to come
ProcessedGreedy == {i \in GreedyIndices(nodes) : i <= Len(new_nodes)}
PendingGreedy == {i \in GreedyIndices(nodes) : i > Len(new_nodes)}

\* the shares handed to the processed Greedy children, before the clamp
HandedOut == SumSeq([i \in 1..Len(shares) |->
                        IF i \in ProcessedGreedy THEN shares[i] ELSE 0])

\* C28: in the greedy-distribution loop the remaining budget never underflows:
\* before each Greedy child is processed the remaining budget is at least the
\* floor share, the budget is set to 0 only while the last Greedy child is
\* processed, and the shares handed out (before the minimum clamp) never sum
\* to more than the initial budget.
C28_BudgetNeverUnderflows ==
    stack_pc \in {"distribute", "done"} =>
        /\ PendingGreedy # {} =>
              /\ greedy_space >= greedy_size
              /\ greedy_space = budget - HandedOut
        /\ HandedOut <= budget

\* the loop has ended after at least two Greedy children, the last of which
\* absorbed a remainder and left the budget at 0
C28_Witness ==
    /\ stack_pc = "done"
    /\ Cardinality(GreedyIndices(nodes)) >= 2
    /\ greedy_space = 0
    /\ budget % Cardinality(GreedyIndices(nodes)) # 0
    /\ HandedOut = budget

----------------------------------------------------------------------------
(* Properties of the animation loop (SpecAnimation).                       *)

\* a key event the loop does not stop on
Deliverable(event) == event.kind = "Key" /\ ~stops_loop(event)

IsKeyEvent(animation_event) == animation_event.kind = "KeyEvent"

\* the key events read that the loop does not stop on, as AnimationEvents
KeyEventsToDeliver ==
    LET keys == SelectSeq(events_read, Deliverable)
    IN  [i \in 1..Len(keys) |-> AnimationKeyEvent(keys[i].code, keys[i].modifiers)]

\* C29: every key event the loop reads, other than Esc and Ctrl+C, is appended
\* to pending_events exactly once as KeyEvent(code, modifiers), in the order
\* read -- a plain 'c' without the Control modifier included.
C29_KeyEventsDelivered ==
    SelectSeq(events_pushed, IsKeyEvent) = KeyEventsToDeliver

\* C29, the rest: a step of the loop itself (any step but the update callback)
\* keeps the events already in pending_events, in their order, at the front.
C29_LoopKeepsPendingEvents ==
    [][anim_pc # "update" =>
          /\ Len(pending_events') >= Len(pending_events)
          /\ SubSeq(pending_events', 1, Len(pending_events)) = pending_events]_vars

HasQuit == \E i \in 1..Len(context_commands) : context_commands[i] = Quit

\* C30: an iteration in which context.commands holds Quit after the update
\* callback leaves the loop in that iteration, before it draws the buffer,
\* polls input, renders a frame or increments frame_count; every iteration that
\* does not stop increases frame_count by exactly 1.
C30_QuitStopsTheIteration ==
    /\ HasQuit => anim_pc \in {"commands", "stopped"}
    /\ (HasQuit /\ anim_pc = "stopped") =>
          /\ stop_cause = "quit"
          /\ draws = iterations - 1
          /\ polls = iterations - 1
          /\ renders = iterations - 1
          /\ frame_count = iterations - 1
    /\ anim_pc = "update" => frame_count = iterations
    /\ anim_pc \in {"commands", "draw", "poll", "render"} =>
          frame_count = iterations - 1

\* the loop ran whole iterations, then the update callback asked to quit
C30_Witness ==
    /\ anim_pc = "stopped"
    /\ stop_cause = "quit"
    /\ frame_count >= 2
    /\ draws = frame_count

====
